---- MODULE Spec2Model ----
(***************************************************************************)
(* Model of the Sudoku solver and generator: the Board (board.py), the     *)
(* occupation and influence strategies and the solve loop of SudokuSolver  *)
(* (solver.py), and SudokuGenerator (generator.py).                        *)
(*                                                                         *)
(* A cell of Board._data is the tuple (x, y, z): x = occupied, y = the     *)
(* occupant, z = the list of influencers.  z is only ever extended by      *)
(* Board.addInfluencer, which appends a number that is not yet in the      *)
(* list, and it is only read through "in" and len(); it is modelled as the *)
(* set of its members.                                                     *)
(***************************************************************************)
EXTENDS Integers, Sequences, FiniteSets, TLC

dim == 3
DIM == dim * dim

Numbers == 1..DIM
Cells == 0..(DIM * DIM - 1)

\* ------------------------------------------------------------ map methods

\* Board.map: (i,j), 1-based, to the index into _data
map(i, j) == (i - 1) * DIM + j - 1

\* Board.mapQuadrant: quadrant-relative (d1, d2, xi, xj) to the index
mapQuadrant(d1, d2, xi, xj) == map((d1 - 1) * dim + xi, (d2 - 1) * dim + xj)

\* Board.inverseMapInternal: index to (i,j)
inverseMapInternal(idx) == <<(idx \div DIM) + 1, (idx % DIM) + 1>>

\* Board.inverseMapQuadrant: (i,j) to (d1, d2, iq, jq)
inverseMapQuadrant(i, j) ==
    LET d1 == ((i - 1) \div dim) + 1
        d2 == ((j - 1) \div dim) + 1
    IN  <<d1, d2, i - (d1 - 1) * dim, j - (d2 - 1) * dim>>

\* Board.inverseMap: quadrant-relative coordinate to (i,j)
inverseMap(d1, d2, r, c) == <<(d1 - 1) * dim + r, (d2 - 1) * dim + c>>

\* ------------------------------------------------------- setters / getters

\* the cell tuples (x, y, z)
VacantCell == [x |-> FALSE, y |-> 0, z |-> {}]

\* SudokuSolver.reinitialize: data = [(False,0,[]) for i in range(0, DIM*DIM)]
EmptyBoard == [k \in Cells |-> VacantCell]

getElement(b, i, j) == b[map(i, j)]

setElement(b, i, j, xyz) == [b EXCEPT ![map(i, j)] = xyz]

getElementInQuadrant(b, d1, d2, i, j) == b[mapQuadrant(d1, d2, i, j)]

\* Board.getInfluencers
getInfluencers(b, i, j) ==
    IF ~getElement(b, i, j).x THEN getElement(b, i, j).z ELSE {}

\* Board.calcCandidates: the numbers of 1..DIM not in z
calcCandidates(z) == Numbers \ z

\* Board.getCandidates: [] for an occupied cell, else 1..DIM minus the influencers
getCandidates(b, i, j) ==
    IF getElement(b, i, j).x THEN {} ELSE Numbers \ getInfluencers(b, i, j)

\* Board.getVacancies: the vacant cells (row, col)
getVacancies(b) == {c \in Numbers \X Numbers : ~getElement(b, c[1], c[2]).x}

\* Board.getVacanciesInQuadrant: vacant cells of the quadrant other than (r,c),
\* quadrant-relative
getVacanciesInQuadrant(b, d1, d2, r, c) ==
    {v \in (1..dim) \X (1..dim) :
        v # <<r, c>> /\ ~getElementInQuadrant(b, d1, d2, v[1], v[2]).x}

\* Board.getVacanciesInRow: vacant cells of row i other than column j
getVacanciesInRow(b, i, j) ==
    {v \in {i} \X Numbers : v[2] # j /\ ~getElement(b, v[1], v[2]).x}

\* Board.getVacanciesInColumn: vacant cells of column j other than row i
getVacanciesInColumn(b, i, j) ==
    {v \in Numbers \X {j} : v[1] # i /\ ~getElement(b, v[1], v[2]).x}

\* ------------------------------------------------------ add influencer

\* Only({ Rest(next) : next \in { round } }) is Rest(round) with the board that
\* round leaves computed once, before Rest reads it: the loops below hand
\* the board of each round to the next one this way.
Only(S) == CHOOSE r \in S : TRUE

\* A plausible slip: the new influencer replaces the list.
addInfluencerReplace(b, number, i, j) ==
    IF ~getElement(b, i, j).x /\ number \notin getElement(b, i, j).z
    THEN [b EXCEPT ![map(i, j)].z = {number}]
    ELSE b

\* Board.addInfluencer: occupied cells are left untouched; the number is
\* appended only if it is not already in the list
addInfluencer(b, number, i, j) ==
    IF ~getElement(b, i, j).x /\ number \notin getElement(b, i, j).z
    THEN [b EXCEPT ![map(i, j)].z = @ \cup {number}]
    ELSE b

RECURSIVE addInfluencerToRowFrom(_, _, _, _, _)
addInfluencerToRowFrom(b, number, i, exceptionList, j) ==
    IF j > DIM THEN b
    ELSE Only({ addInfluencerToRowFrom(next, number, i, exceptionList, j + 1) :
             next \in { IF j \notin exceptionList /\ ~getElement(b, i, j).x
                         THEN addInfluencer(b, number, i, j) ELSE b } })

\* Board.addInfluencerToRow: for j in 1..DIM not in the exception list
addInfluencerToRow(b, number, i, exceptionList) ==
    addInfluencerToRowFrom(b, number, i, exceptionList, 1)

RECURSIVE addInfluencerToColumnFrom(_, _, _, _, _)
addInfluencerToColumnFrom(b, number, j, exceptionList, i) ==
    IF i > DIM THEN b
    ELSE Only({ addInfluencerToColumnFrom(next, number, j, exceptionList, i + 1) :
             next \in { IF i \notin exceptionList /\ ~getElement(b, i, j).x
                         THEN addInfluencer(b, number, i, j) ELSE b } })

\* A plausible slip: the loop over the rows starts at the second row.
addInfluencerToColumnFromSecond(b, number, j, exceptionList) ==
    addInfluencerToColumnFrom(b, number, j, exceptionList, 2)

\* Board.addInfluencerToColumn: for i in 1..DIM not in the exception list
addInfluencerToColumn(b, number, j, exceptionList) ==
    addInfluencerToColumnFrom(b, number, j, exceptionList, 1)

RECURSIVE addInfluencerToQuadrantFrom(_, _, _, _, _, _)
addInfluencerToQuadrantFrom(b, number, d1, d2, exceptionList, k) ==
    IF k >= dim * dim THEN b
    ELSE LET i == (k \div dim) + 1
             j == (k % dim) + 1
         IN  Only({ addInfluencerToQuadrantFrom(next, number, d1, d2, exceptionList, k + 1) :
                 next \in { IF <<i, j>> \notin exceptionList
                             THEN addInfluencer(b, number, (d1 - 1) * dim + i, (d2 - 1) * dim + j)
                             ELSE b } })

\* Board.addInfluencerToQuadrant: the exception list is compared with the
\* quadrant-relative (i,j) of the loop
addInfluencerToQuadrant(b, number, d1, d2, exceptionList) ==
    addInfluencerToQuadrantFrom(b, number, d1, d2, exceptionList, 0)

\* A plausible slip: the quadrant is left out.
addInfluencerToRegionExclusiveRowColumn(b, number, i, j) ==
    addInfluencerToColumn(addInfluencerToRow(b, number, i, {j}), number, j, {i})

\* Board.addInfluencerToRegionExclusive: row, column, quadrant of (i,j).  The
\* quadrant call passes the absolute (i,j) as the exception.
addInfluencerToRegionExclusive(b, number, i, j) ==
    addInfluencerToQuadrant(
        addInfluencerToColumn(
            addInfluencerToRow(b, number, i, {j}),
            number, j, {i}),
        number, ((i - 1) \div dim) + 1, ((j - 1) \div dim) + 1, {<<i, j>>})

\* ------------------------------------------------------------- conformance

\* no occupant appears twice among the cells (indices) of one region
NoDuplicate(b, region) ==
    \A k1, k2 \in region :
        (k1 # k2 /\ b[k1].x /\ b[k2].x) => b[k1].y # b[k2].y

RowCells(r) == {map(r, c) : c \in Numbers}
ColumnCells(c) == {map(r, c) : r \in Numbers}
QuadrantCells(d1, d2) == {mapQuadrant(d1, d2, i, j) : i \in 1..dim, j \in 1..dim}

checkConformanceInRow(b, r) == NoDuplicate(b, RowCells(r))
checkConformanceInColumn(b, c) == NoDuplicate(b, ColumnCells(c))
checkConformanceInQuadrant(b, d1, d2) == NoDuplicate(b, QuadrantCells(d1, d2))

\* Board.checkConformanceOfBoard: all columns, rows and quadrants
checkConformanceOfBoard(b) ==
    /\ \A c \in Numbers : checkConformanceInColumn(b, c)
    /\ \A r \in Numbers : checkConformanceInRow(b, r)
    /\ \A d1, d2 \in 1..dim : checkConformanceInQuadrant(b, d1, d2)

\* ------------------------------------------------------------ small helpers

Min(S) == CHOOSE a \in S : \A c \in S : a <= c
Max(S) == CHOOSE a \in S : \A c \in S : c <= a

\* the cells (i,j) of a row, a column, a quadrant, in the order in which the
\* strategies build their arrays
RowArray(i) == [j \in 1..DIM |-> <<i, j>>] \o <<>>
ColumnArray(j) == [i \in 1..DIM |-> <<i, j>>] \o <<>>
QuadrantArray(d1, d2) ==
    [k \in 1..DIM |->
        <<(d1 - 1) * dim + ((k - 1) \div dim) + 1, (d2 - 1) * dim + ((k - 1) % dim) + 1>>] \o <<>>

\* is num a candidate of (i,j): the cell is vacant and num is no influencer
isCandidate(b, num, i, j) ==
    ~getElement(b, i, j).x /\ num \notin getElement(b, i, j).z

\* ------------------------------------------------------- X-Wing strategy

\* XWingStrategy.findCandidatesInRow: the columns of the cells of row r that
\* are vacant and have pivot as candidate
findCandidatesInRow(b, pivot, r) == {c \in Numbers : isCandidate(b, pivot, r, c)}

\* XWingStrategy.findCandidatesInColumn: the rows of such cells of column c
findCandidatesInColumn(b, pivot, c) == {r \in Numbers : isCandidate(b, pivot, r, c)}

\* XWingStrategy.searchForXWingRows with getXWingRow: pairs of rows k < l with
\* exactly two pivot cells each, aligned in the same columns; an X-Wing is
\* (r11, c11, r22, c22)
searchForXWingRows(b, pivot) ==
    LET cols == [r \in Numbers |-> findCandidatesInRow(b, pivot, r)] \o <<>>
    IN  {<<k, Min(cols[k]), l, Max(cols[l])>> : <<k, l>> \in
            {p \in Numbers \X Numbers :
                /\ p[1] < p[2]
                /\ Cardinality(cols[p[1]]) = 2
                /\ cols[p[1]] = cols[p[2]]}}

\* XWingStrategy.searchForXWingColumns with getXWingColumn
searchForXWingColumns(b, pivot) ==
    LET rows == [c \in Numbers |-> findCandidatesInColumn(b, pivot, c)] \o <<>>
    IN  {<<Min(rows[k]), k, Max(rows[l]), l>> : <<k, l>> \in
            {p \in Numbers \X Numbers :
                /\ p[1] < p[2]
                /\ Cardinality(rows[p[1]]) = 2
                /\ rows[p[1]] = rows[p[2]]}}

\* the first X-Wing of the list: the lists are built for k, then l, ascending
FirstXWingByRows(xWings) ==
    CHOOSE w \in xWings : \A v \in xWings :
        w[1] < v[1] \/ (w[1] = v[1] /\ w[3] <= v[3])
FirstXWingByColumns(xWings) ==
    CHOOSE w \in xWings : \A v \in xWings :
        w[2] < v[2] \/ (w[2] = v[2] /\ w[4] <= v[4])

\* A plausible slip: only the first column of an X-Wing is cleared.
RECURSIVE XWingRowsEliminateFirstColumn(_, _, _)
XWingRowsEliminateFirstColumn(b, pivot, xWings) ==
    IF xWings = {} THEN b
    ELSE LET w == FirstXWingByRows(xWings)
             exceptionList == {w[1], w[3]}
         IN  Only({ XWingRowsEliminateFirstColumn(next, pivot, xWings \ {w}) :
                 next \in { addInfluencerToColumn(b, pivot, w[2], exceptionList) } })

\* A plausible slip: the two rows of the X-Wing are not excepted.
RECURSIVE XWingRowsEliminateCorners(_, _, _)
XWingRowsEliminateCorners(b, pivot, xWings) ==
    IF xWings = {} THEN b
    ELSE LET w == FirstXWingByRows(xWings)
         IN  Only({ XWingRowsEliminateCorners(next, pivot, xWings \ {w}) :
                 next \in { addInfluencerToColumn(
                             addInfluencerToColumn(b, pivot, w[2], {}),
                             pivot, w[4], {}) } })

RECURSIVE XWingRowsEliminate(_, _, _)
XWingRowsEliminate(b, pivot, xWings) ==
    IF xWings = {} THEN b
    ELSE LET w == FirstXWingByRows(xWings)
             exceptionList == {w[1], w[3]}
         IN  Only({ XWingRowsEliminate(next, pivot, xWings \ {w}) :
                 next \in { addInfluencerToColumn(
                             addInfluencerToColumn(b, pivot, w[2], exceptionList),
                             pivot, w[4], exceptionList) } })

RECURSIVE XWingColumnsEliminate(_, _, _)
XWingColumnsEliminate(b, pivot, xWings) ==
    IF xWings = {} THEN b
    ELSE LET w == FirstXWingByColumns(xWings)
             exceptionList == {w[2], w[4]}
         IN  Only({ XWingColumnsEliminate(next, pivot, xWings \ {w}) :
                 next \in { addInfluencerToRow(
                             addInfluencerToRow(b, pivot, w[1], exceptionList),
                             pivot, w[3], exceptionList) } })

RECURSIVE XWingRowsFrom(_, _)
XWingRowsFrom(b, pivot) ==
    IF pivot > DIM THEN b
    ELSE Only({ XWingRowsFrom(next, pivot + 1) :
             next \in { XWingRowsEliminate(b, pivot, searchForXWingRows(b, pivot)) } })

RECURSIVE XWingColumnsFrom(_, _)
XWingColumnsFrom(b, pivot) ==
    IF pivot > DIM THEN b
    ELSE Only({ XWingColumnsFrom(next, pivot + 1) :
             next \in { XWingColumnsEliminate(b, pivot, searchForXWingColumns(b, pivot)) } })

\* XWingStrategy.applyStrategyToRows: for each pivot, the rows with exactly
\* two pivot cells are collected first, then every X-Wing found among them
\* removes the pivot from its two columns outside its two rows
XWingApplyStrategyToRows(b) == XWingRowsFrom(b, 1)

\* XWingStrategy.applyStrategyToColumns
XWingApplyStrategyToColumns(b) == XWingColumnsFrom(b, 1)

\* XWingStrategy.applyStrategy: columns, then rows
XWingStrategy(b) ==
    Only({ XWingApplyStrategyToRows(columns) :
        columns \in { XWingApplyStrategyToColumns(b) } })

\* ----------------------------------------------------- Swordfish strategy

\* SwordFishStrategy.rowContainsCandidate: how often pivot is a candidate in row r
rowContainsCandidate(b, pivot, r) ==
    Cardinality({c \in Numbers : isCandidate(b, pivot, r, c)})

\* SwordFishStrategy.columnContainsCandidate: result is reset to 0 inside the
\* loop over the rows, so what is returned is the count of the last row alone
columnContainsCandidate(b, pivot, c) ==
    IF isCandidate(b, pivot, DIM, c) THEN 1 ELSE 0

\* SwordFishStrategy.matchingRows
matchingRows(b, pivot, c1, c2, c3) ==
    {r \in Numbers : \E c \in {c1, c2, c3} : pivot \in getCandidates(b, r, c)}

\* SwordFishStrategy.matchingColumns
matchingColumns(b, pivot, r1, r2, r3) ==
    {c \in Numbers : \E r \in {r1, r2, r3} : pivot \in getCandidates(b, r, c)}

\* for r in rowList: addInfluencerToRow(pivot, r, [c1, c2, c3])
RECURSIVE SwordFishRowsEliminate(_, _, _, _)
SwordFishRowsEliminate(b, pivot, rowList, exceptionList) ==
    IF rowList = {} THEN b
    ELSE Only({ SwordFishRowsEliminate(next, pivot, rowList \ {Min(rowList)},
                exceptionList) :
             next \in { addInfluencerToRow(b, pivot, Min(rowList), exceptionList) } })

\* for c in colList: addInfluencerToColumn(pivot, c, [r1, r2, r3])
RECURSIVE SwordFishColumnsEliminate(_, _, _, _)
SwordFishColumnsEliminate(b, pivot, colList, exceptionList) ==
    IF colList = {} THEN b
    ELSE Only({ SwordFishColumnsEliminate(next, pivot, colList \ {Min(colList)},
                exceptionList) :
             next \in { addInfluencerToColumn(b, pivot, Min(colList), exceptionList) } })

outOfRange(howMany) == howMany <= 1 \/ howMany > dim

\* applyStrategyToColumns, innermost loop: for c3 in c2+1..DIM
RECURSIVE SwordFishColumnsC3(_, _, _, _, _)
SwordFishColumnsC3(b, pivot, c1, c2, c3) ==
    IF c3 > DIM THEN b
    ELSE LET rowList == matchingRows(b, pivot, c1, c2, c3)
         IN  Only({ SwordFishColumnsC3(next, pivot, c1, c2, c3 + 1) :
                 next \in { IF outOfRange(columnContainsCandidate(b, pivot, c3)) THEN b
                             ELSE IF Cardinality(rowList) = dim
                             THEN SwordFishRowsEliminate(b, pivot, rowList, {c1, c2, c3})
                             ELSE b } })

\* for c2 in c1+1..DIM-1
RECURSIVE SwordFishColumnsC2(_, _, _, _)
SwordFishColumnsC2(b, pivot, c1, c2) ==
    IF c2 > DIM - 1 THEN b
    ELSE Only({ SwordFishColumnsC2(next, pivot, c1, c2 + 1) :
             next \in { IF outOfRange(columnContainsCandidate(b, pivot, c2)) THEN b
                         ELSE SwordFishColumnsC3(b, pivot, c1, c2, c2 + 1) } })

\* for c1 in 1..DIM-2
RECURSIVE SwordFishColumnsC1(_, _, _)
SwordFishColumnsC1(b, pivot, c1) ==
    IF c1 > DIM - 2 THEN b
    ELSE Only({ SwordFishColumnsC1(next, pivot, c1 + 1) :
             next \in { IF outOfRange(columnContainsCandidate(b, pivot, c1)) THEN b
                         ELSE SwordFishColumnsC2(b, pivot, c1, c1 + 1) } })

\* for pivot in 1..DIM
RECURSIVE SwordFishColumnsPivot(_, _)
SwordFishColumnsPivot(b, pivot) ==
    IF pivot > DIM THEN b
    ELSE Only({ SwordFishColumnsPivot(next, pivot + 1) :
             next \in { SwordFishColumnsC1(b, pivot, 1) } })

\* applyStrategyToRows, innermost loop: for r3 in r2+1..DIM
RECURSIVE SwordFishRowsR3(_, _, _, _, _)
SwordFishRowsR3(b, pivot, r1, r2, r3) ==
    IF r3 > DIM THEN b
    ELSE LET colList == matchingColumns(b, pivot, r1, r2, r3)
         IN  Only({ SwordFishRowsR3(next, pivot, r1, r2, r3 + 1) :
                 next \in { IF outOfRange(rowContainsCandidate(b, pivot, r3)) THEN b
                             ELSE IF Cardinality(colList) = dim
                             THEN SwordFishColumnsEliminate(b, pivot, colList, {r1, r2, r3})
                             ELSE b } })

\* for r2 in r1+1..DIM-1
RECURSIVE SwordFishRowsR2(_, _, _, _)
SwordFishRowsR2(b, pivot, r1, r2) ==
    IF r2 > DIM - 1 THEN b
    ELSE Only({ SwordFishRowsR2(next, pivot, r1, r2 + 1) :
             next \in { IF outOfRange(rowContainsCandidate(b, pivot, r2)) THEN b
                         ELSE SwordFishRowsR3(b, pivot, r1, r2, r2 + 1) } })

\* for r1 in 1..DIM-2
RECURSIVE SwordFishRowsR1(_, _, _)
SwordFishRowsR1(b, pivot, r1) ==
    IF r1 > DIM - 2 THEN b
    ELSE Only({ SwordFishRowsR1(next, pivot, r1 + 1) :
             next \in { IF outOfRange(rowContainsCandidate(b, pivot, r1)) THEN b
                         ELSE SwordFishRowsR2(b, pivot, r1, r1 + 1) } })

\* for pivot in 1..DIM
RECURSIVE SwordFishRowsPivot(_, _)
SwordFishRowsPivot(b, pivot) ==
    IF pivot > DIM THEN b
    ELSE Only({ SwordFishRowsPivot(next, pivot + 1) :
             next \in { SwordFishRowsR1(b, pivot, 1) } })

\* SwordFishStrategy.applyStrategyToColumns
SwordFishApplyStrategyToColumns(b) == SwordFishColumnsPivot(b, 1)

\* SwordFishStrategy.applyStrategyToRows
SwordFishApplyStrategyToRows(b) == SwordFishRowsPivot(b, 1)

\* SwordFishStrategy.applyStrategy: columns, then rows
SwordFishStrategy(b) ==
    Only({ SwordFishApplyStrategyToRows(columns) :
        columns \in { SwordFishApplyStrategyToColumns(b) } })

\* -------------------------------------------------- Hidden Pairs strategy

\* cand = self.board.getCandidates(i,j) for the cells of the array
CandidatesOf(b, cells) ==
    [idx \in 1..DIM |-> getCandidates(b, cells[idx][1], cells[idx][2])] \o <<>>

\* Board.addInfluencer called on one cell for every number of a set
addInfluencers(b, numbers, i, j) ==
    IF ~getElement(b, i, j).x /\ ~(numbers \subseteq getElement(b, i, j).z)
    THEN [b EXCEPT ![map(i, j)].z = @ \cup numbers]
    ELSE b

\* "for num in 1..DIM: if num is none of nums: if not num in cand1:
\* addInfluencer(num, cell1) ..." for the occurrences idxs (indices into the
\* array, ascending).  cand1, cand2, (cand3) are read before the loop, so the
\* numbers written into a cell do not depend on the writes into the others
\* and the writes are grouped by cell.
RECURSIVE HiddenEliminate(_, _, _, _, _)
HiddenEliminate(b, cells, cands, idxs, nums) ==
    IF idxs = {} THEN b
    ELSE LET o == Min(idxs)
         IN  Only({ HiddenEliminate(next, cells, cands, idxs \ {o}, nums) :
                 next \in { addInfluencers(b, (Numbers \ nums) \ cands[o],
                             cells[o][1], cells[o][2]) } })

\* HiddenPairsStrategy.handleHiddenPairs; cands are the candidates of the
\* cells of the array on board b, as the first loop of the method reads them
handleHiddenPairs(b, cells, cands, nums) ==
    LET idxs == {idx \in 1..DIM : nums \subseteq cands[idx]}
    IN  IF Cardinality(idxs) # 2 THEN b
        ELSE IF \A o \in idxs : Cardinality(cands[o]) > 2
             THEN HiddenEliminate(b, cells, cands, idxs, nums)
             ELSE b

\* HiddenTriplesStrategy.handleHiddenTriples
handleHiddenTriples(b, cells, cands, nums) ==
    LET idxs == {idx \in 1..DIM : nums \subseteq cands[idx]}
    IN  IF Cardinality(idxs) # 3 THEN b
        ELSE IF \A o \in idxs : Cardinality(cands[o]) > 3
             THEN HiddenEliminate(b, cells, cands, idxs, nums)
             ELSE b

\* The loops over the number combinations call handleHiddenPairs (Triples)
\* once per combination, in ascending order of (n1, n2, n3), and each call
\* starts by counting the cells of the array that have all the numbers as
\* candidates.  A call that returns at the count leaves the board as it is, so
\* the walks below expand only the calls that get past the count: the
\* combinations whose count is 2 (3) on the current board, taken in the order
\* of the loops, and counted again once a call has changed the board.

\* for every number, the cells of the array that have it as a candidate
PositionsOf(cands) ==
    [n \in Numbers |-> {idx \in 1..DIM : n \in cands[idx]}] \o <<>>

\* the position of a combination in the order of the loops
CombinationRank(t) ==
    IF Len(t) = 2 THEN (t[1] * (DIM + 1)) + t[2]
    ELSE (((t[1] * (DIM + 1)) + t[2]) * (DIM + 1)) + t[3]

FirstCombination(hits) ==
    CHOOSE t \in hits : \A u \in hits : CombinationRank(t) <= CombinationRank(u)

\* the pairs (n1,n2), n1 in 1..DIM-1, n2 in n1+1..DIM, with len(occurrences) = 2
PairHits(cands) ==
    LET pos == PositionsOf(cands)
    IN  UNION { { <<n1, n2>> : n2 \in { m \in (n1 + 1)..DIM :
                                  Cardinality(pos[n1] \cap pos[m]) = 2 } }
                : n1 \in 1..(DIM - 1) }

\* the triples (n1,n2,n3), n1 in 1..DIM-2, n2 in n1+1..DIM-1, n3 in n2+1..DIM,
\* with len(occurrences) = 3
TripleHits(cands) ==
    LET pos == PositionsOf(cands)
    IN  UNION { UNION { LET in12 == pos[n1] \cap pos[n2]
                        IN  IF Cardinality(in12) < 3 THEN {}
                            ELSE { <<n1, n2, n3>> : n3 \in { m \in (n2 + 1)..DIM :
                                       Cardinality(in12 \cap pos[m]) = 3 } }
                        : n2 \in (n1 + 1)..(DIM - 1) }
                : n1 \in 1..(DIM - 2) }

\* for n1 .. for n2 ..: handleHiddenPairs(array, (n1,n2)); hits are the pairs
\* of the rest of the loops that get past the count on board b, cands the
\* candidates of the cells of the array on board b.  The calls before the
\* first one that changes the board all see board b.
RECURSIVE HiddenPairsLoop(_, _, _, _)
HiddenPairsLoop(b, cells, cands, hits) ==
    LET changing == { t \in hits : handleHiddenPairs(b, cells, cands, {t[1], t[2]}) # b }
    IN  IF changing = {} THEN b
        ELSE Only({ Only({ HiddenPairsLoop(next, cells, after,
                               { u \in PairHits(after) :
                                     CombinationRank(u) > CombinationRank(t) }) :
                           after \in { CandidatesOf(next, cells) } }) :
                    t \in { FirstCombination(changing) },
                    next \in { handleHiddenPairs(b, cells, cands,
                                   {FirstCombination(changing)[1],
                                    FirstCombination(changing)[2]}) } })

\* for n1 .. for n2 .. for n3 ..: handleHiddenTriples(array, (n1,n2,n3))
RECURSIVE HiddenTriplesLoop(_, _, _, _)
HiddenTriplesLoop(b, cells, cands, hits) ==
    LET changing == { t \in hits :
                        handleHiddenTriples(b, cells, cands, {t[1], t[2], t[3]}) # b }
    IN  IF changing = {} THEN b
        ELSE Only({ Only({ HiddenTriplesLoop(next, cells, after,
                               { u \in TripleHits(after) :
                                     CombinationRank(u) > CombinationRank(t) }) :
                           after \in { CandidatesOf(next, cells) } }) :
                    t \in { FirstCombination(changing) },
                    next \in { handleHiddenTriples(b, cells, cands,
                                   {FirstCombination(changing)[1],
                                    FirstCombination(changing)[2],
                                    FirstCombination(changing)[3]}) } })

\* the arrays of one kind, in loop order: the quadrants (d1, then d2), the
\* rows, the columns
RegionArray(kind, k) ==
    IF kind = 1 THEN QuadrantArray(((k - 1) \div dim) + 1, ((k - 1) % dim) + 1)
    ELSE IF kind = 2 THEN RowArray(k)
    ELSE ColumnArray(k)

\* HiddenPairsStrategy.applyStrategyToQuadrants / ToRows / ToColumns
RECURSIVE HiddenPairsApplyTo(_, _, _)
HiddenPairsApplyTo(b, kind, k) ==
    IF k > DIM THEN b
    ELSE LET cells == RegionArray(kind, k)
             cands == CandidatesOf(b, cells)
         IN  Only({ HiddenPairsApplyTo(next, kind, k + 1) :
                 next \in { HiddenPairsLoop(b, cells, cands, PairHits(cands)) } })

\* HiddenTriplesStrategy.applyStrategyToQuadrants / ToRows / ToColumns
RECURSIVE HiddenTriplesApplyTo(_, _, _)
HiddenTriplesApplyTo(b, kind, k) ==
    IF k > DIM THEN b
    ELSE LET cells == RegionArray(kind, k)
             cands == CandidatesOf(b, cells)
         IN  Only({ HiddenTriplesApplyTo(next, kind, k + 1) :
                 next \in { HiddenTriplesLoop(b, cells, cands, TripleHits(cands)) } })

\* HiddenPairsStrategy.applyStrategy: quadrants, rows, columns
HiddenPairsStrategy(b) ==
    Only({ HiddenPairsApplyTo(rows, 3, 1) :
        rows \in { HiddenPairsApplyTo(quadrants, 2, 1) :
            quadrants \in { HiddenPairsApplyTo(b, 1, 1) } } })

\* HiddenTriplesStrategy.applyStrategy: quadrants, rows, columns
HiddenTriplesStrategy(b) ==
    Only({ HiddenTriplesApplyTo(rows, 3, 1) :
        rows \in { HiddenTriplesApplyTo(quadrants, 2, 1) :
            quadrants \in { HiddenTriplesApplyTo(b, 1, 1) } } })

\* ---------------------------------------- Pointing Pairs/Triples strategy

\* the loops "for c in 1..DIM: if c >= low or c <= high: continue;
\* addInfluencer(num, row, c)" (rows) and the same over r (columns)
RECURSIVE PointingEliminate(_, _, _, _, _, _, _)
PointingEliminate(b, num, inRow, line, low, high, k) ==
    IF k > DIM THEN b
    ELSE Only({ PointingEliminate(next, num, inRow, line, low, high, k + 1) :
             next \in { IF k >= low \/ k <= high THEN b
                         ELSE IF inRow THEN addInfluencer(b, num, line, k)
                         ELSE addInfluencer(b, num, k, line) } })

\* the cells of the array (as indices 1..DIM) that have all of nums as
\* candidates
Occurrences(b, cells, nums) ==
    {idx \in 1..DIM : nums \subseteq getCandidates(b, cells[idx][1], cells[idx][2])}

\* the occurrences as the list cell1, cell2, (cell3), in array order
RECURSIVE OccurrenceList(_, _)
OccurrenceList(cells, idxs) ==
    IF idxs = {} THEN <<>>
    ELSE <<cells[Min(idxs)]>> \o OccurrenceList(cells, idxs \ {Min(idxs)})

\* PointingPairsAndTriplesStrategy.handlePointingPairsAndTriples
handlePointingPairsAndTriples(b, cells, num) ==
    LET idxs == Occurrences(b, cells, {num})
        count == Cardinality(idxs)
    IN  IF count \notin 2..3 THEN b
        ELSE LET occ == OccurrenceList(cells, idxs)
                 inSameRow == \A o \in 1..(count - 1) : occ[o][1] = occ[o + 1][1]
                 inSameCol == \A o \in 1..(count - 1) : occ[o][2] = occ[o + 1][2]
                 q == inverseMapQuadrant(occ[1][1], occ[1][2])
             IN  IF inSameRow
                 THEN PointingEliminate(b, num, TRUE, occ[1][1],
                        (q[2] - 1) * dim + 1, (q[2] - 1) * dim + 3, 1)
                 ELSE IF inSameCol
                 THEN PointingEliminate(b, num, FALSE, occ[1][2],
                        (q[1] - 1) * dim + 1, (q[1] - 1) * dim + 3, 1)
                 ELSE b

\* for n in 1..DIM: handlePointingPairsAndTriples(array, n)
RECURSIVE PointingNumbers(_, _, _)
PointingNumbers(b, cells, n) ==
    IF n > DIM THEN b
    ELSE Only({ PointingNumbers(next, cells, n + 1) :
             next \in { handlePointingPairsAndTriples(b, cells, n) } })

\* PointingPairsAndTriplesStrategy.applyStrategyToQuadrants
RECURSIVE PointingQuadrants(_, _)
PointingQuadrants(b, k) ==
    IF k > DIM THEN b
    ELSE Only({ PointingQuadrants(next, k + 1) :
             next \in { PointingNumbers(b, RegionArray(1, k), 1) } })

\* PointingPairsAndTriplesStrategy.applyStrategy: every quadrant, every number
PointingPairsAndTriplesStrategy(b) == PointingQuadrants(b, 1)

\* ---------------------------------------- Indirect Influencers strategy

\* "for j in 1..DIM: if vacant and j outside the quadrant:
\* addInfluencer(num, row, j)", and the same over i for a column
RECURSIVE IndirectEliminateLine(_, _, _, _, _, _)
IndirectEliminateLine(b, num, inRow, line, inside, m) ==
    IF m > DIM THEN b
    ELSE LET i == IF inRow THEN line ELSE m
             j == IF inRow THEN m ELSE line
         IN  Only({ IndirectEliminateLine(next, num, inRow, line, inside, m + 1) :
                 next \in { IF ~getElement(b, i, j).x /\ m \notin inside
                             THEN addInfluencer(b, num, i, j) ELSE b } })

\* "for num in totalSet"
RECURSIVE IndirectEliminate(_, _, _, _, _)
IndirectEliminate(b, totalSet, inRow, line, inside) ==
    IF totalSet = {} THEN b
    ELSE Only({ IndirectEliminate(next, totalSet \ {Min(totalSet)}, inRow, line, inside) :
             next \in { IndirectEliminateLine(b, Min(totalSet), inRow, line, inside, 1) } })

\* the union of the candidates of the vacant cells of a segment, and their count
SegmentCandidates(b, segment) ==
    UNION {calcCandidates(b[k].z) : k \in {s \in segment : ~b[s].x}}
SegmentVacant(b, segment) == Cardinality({s \in segment : ~b[s].x})

\* A plausible slip: the cells of the quadrant are not left out.
analyzeRowInQuadrantInside(b, d1, d2, r) ==
    LET segment == {mapQuadrant(d1, d2, r, c) : c \in 1..dim}
        totalSet == SegmentCandidates(b, segment)
    IN  IF Cardinality(totalSet) = SegmentVacant(b, segment)
        THEN IndirectEliminate(b, totalSet, TRUE, (d1 - 1) * dim + r, {})
        ELSE b

\* IndirectInfluencersStrategy.analyzeRowInQuadrant
analyzeRowInQuadrant(b, d1, d2, r) ==
    LET segment == {mapQuadrant(d1, d2, r, c) : c \in 1..dim}
        totalSet == SegmentCandidates(b, segment)
    IN  IF Cardinality(totalSet) = SegmentVacant(b, segment)
        THEN IndirectEliminate(b, totalSet, TRUE, (d1 - 1) * dim + r,
                ((d2 - 1) * dim + 1)..((d2 - 1) * dim + dim))
        ELSE b

\* A plausible slip: the numbers are written over the influencers of the
\* cells of the column instead of being added to them.
analyzeColumnInQuadrantOverwrite(b, d1, d2, c) ==
    LET segment == {mapQuadrant(d1, d2, r, c) : r \in 1..dim}
        totalSet == SegmentCandidates(b, segment)
    IN  IF Cardinality(totalSet) = SegmentVacant(b, segment)
        THEN [k \in Cells |->
                IF /\ k \in {map(i, (d2 - 1) * dim + c) : i \in Numbers}
                   /\ k \notin segment
                   /\ ~b[k].x
                   /\ totalSet # {}
                THEN [b[k] EXCEPT !.z = totalSet] ELSE b[k]]
        ELSE b

\* IndirectInfluencersStrategy.analyzeColumnInQuadrant
analyzeColumnInQuadrant(b, d1, d2, c) ==
    LET segment == {mapQuadrant(d1, d2, r, c) : r \in 1..dim}
        totalSet == SegmentCandidates(b, segment)
    IN  IF Cardinality(totalSet) = SegmentVacant(b, segment)
        THEN IndirectEliminate(b, totalSet, FALSE, (d2 - 1) * dim + c,
                ((d1 - 1) * dim + 1)..((d1 - 1) * dim + dim))
        ELSE b

\* IndirectInfluencersStrategy.addIndirectInfluencersToQuadrant: the rows
\* 1..dim of the quadrant, then its columns 1..dim
RECURSIVE addIndirectInfluencersToQuadrantFrom(_, _, _, _)
addIndirectInfluencersToQuadrantFrom(b, d1, d2, k) ==
    IF k > 2 * dim THEN b
    ELSE Only({ addIndirectInfluencersToQuadrantFrom(next, d1, d2, k + 1) :
             next \in { IF k <= dim THEN analyzeRowInQuadrant(b, d1, d2, k)
                         ELSE analyzeColumnInQuadrant(b, d1, d2, k - dim) } })

addIndirectInfluencersToQuadrant(b, d1, d2) ==
    addIndirectInfluencersToQuadrantFrom(b, d1, d2, 1)

RECURSIVE IndirectFrom(_, _)
IndirectFrom(b, k) ==
    IF k >= dim * dim THEN b
    ELSE Only({ IndirectFrom(next, k + 1) :
             next \in { addIndirectInfluencersToQuadrant(b, (k \div dim) + 1, (k % dim) + 1) } })

\* IndirectInfluencersStrategy.applyStrategy: all quadrants, d1 then d2
IndirectInfluencersStrategy(b) == IndirectFrom(b, 0)

\* ---------------------------------------------------- occupation strategies

\* the influencers (x,y,z)[2] of the cell a vacancy names
QuadrantVacancyZ(b, d1, d2, v) == getElementInQuadrant(b, d1, d2, v[1], v[2]).z
VacancyZ(b, v) == getElement(b, v[1], v[2]).z

\* A plausible slip: the loop runs over all the numbers, not the candidates.
DeepCheckResultOfNumbers(candidates, zs) ==
    LET hits == {num \in Numbers : \A z \in zs : num \in z}
    IN  IF hits = {} THEN 0 ELSE Min(hits)

\* the loops of DeepCheckStrategy.applyTo*: the first candidate, in ascending
\* order, that is an influencer of every vacancy of the list; 0 if none
DeepCheckResult(candidates, zs) ==
    LET hits == {num \in candidates : \A z \in zs : num \in z}
    IN  IF hits = {} THEN 0 ELSE Min(hits)

\* DeepCheckStrategy.applyToQuadrant
DeepCheckApplyToQuadrant(b, i, j) ==
    LET q == inverseMapQuadrant(i, j)
        vacancies == getVacanciesInQuadrant(b, q[1], q[2], q[3], q[4])
    IN  DeepCheckResult(getCandidates(b, i, j),
                        {QuadrantVacancyZ(b, q[1], q[2], v) : v \in vacancies})

\* DeepCheckStrategy.applyToRow
DeepCheckApplyToRow(b, i, j) ==
    DeepCheckResult(getCandidates(b, i, j),
                    {VacancyZ(b, v) : v \in getVacanciesInRow(b, i, j)})

\* DeepCheckStrategy.applyToColumn
DeepCheckApplyToColumn(b, i, j) ==
    DeepCheckResult(getCandidates(b, i, j),
                    {VacancyZ(b, v) : v \in getVacanciesInColumn(b, i, j)})

\* OccupationStrategy.applyStrategy, inherited by DeepCheckStrategy:
\* quadrant, then row, then column; the first result # 0 is returned
DeepCheckStrategy(b, i, j) ==
    IF DeepCheckApplyToQuadrant(b, i, j) # 0 THEN DeepCheckApplyToQuadrant(b, i, j)
    ELSE IF DeepCheckApplyToRow(b, i, j) # 0 THEN DeepCheckApplyToRow(b, i, j)
    ELSE DeepCheckApplyToColumn(b, i, j)

\* A plausible slip: the number of influencers is not compared.
OneCandidateLeftStrategyFirst(b, i, j) ==
    IF getCandidates(b, i, j) # {} THEN Min(getCandidates(b, i, j)) ELSE 0

\* OneCandidateLeftStrategy.applyStrategy: with DIM-1 influencers the only
\* candidate left is returned
OneCandidateLeftStrategy(b, i, j) ==
    IF Cardinality(getElement(b, i, j).z) = DIM - 1
    THEN Min(getCandidates(b, i, j))
    ELSE 0

\* RemainingInfluencerStrategy.applyTo*: the intersection with the influencers
\* of each vacancy is assigned to "totalset", a name that is never read, so
\* totalSet is still {1..9} when its length is compared with 1
RemainingInfluencerApplyTo(b, zs) ==
    LET totalSet == Numbers
    IN  IF Cardinality(totalSet) = 1 THEN Min(totalSet) ELSE 0

\* OccupationStrategy.applyStrategy, inherited by RemainingInfluencerStrategy
RemainingInfluencerStrategy(b, i, j) ==
    LET q == inverseMapQuadrant(i, j)
        inQuadrant == RemainingInfluencerApplyTo(b,
            {QuadrantVacancyZ(b, q[1], q[2], v) :
                v \in getVacanciesInQuadrant(b, q[1], q[2], q[3], q[4])})
        inRow == RemainingInfluencerApplyTo(b,
            {VacancyZ(b, v) : v \in getVacanciesInRow(b, i, j)})
        inColumn == RemainingInfluencerApplyTo(b,
            {VacancyZ(b, v) : v \in getVacanciesInColumn(b, i, j)})
    IN  IF inQuadrant # 0 THEN inQuadrant
        ELSE IF inRow # 0 THEN inRow
        ELSE inColumn

\* ------------------------------------------------------------- characters

\* str(n) for n in 0..9 and int(c) for a digit character c
Digits == <<"0", "1", "2", "3", "4", "5", "6", "7", "8", "9">>
DigitChars == {Digits[k] : k \in 1..Len(Digits)}
str(n) == Digits[n + 1]
int(c) == (CHOOSE k \in 1..Len(Digits) : Digits[k] = c) - 1

\* the result of an operation that ended with an exception instead
Raised == -1

\* A plausible slip: the test of x is inverted.
CheatingOccupied(b, solution, i, j) ==
    IF getElement(b, i, j).x
    THEN IF map(i, j) + 1 > Len(solution) THEN Raised
         ELSE int(solution[map(i, j) + 1])
    ELSE 0

\* Cheating.applyStrategy: for a vacant cell, int(self.board.solution[idx]);
\* indexing past the end of solution raises IndexError
Cheating(b, solution, i, j) ==
    IF ~getElement(b, i, j).x
    THEN IF map(i, j) + 1 > Len(solution) THEN Raised
         ELSE int(solution[map(i, j) + 1])
    ELSE 0

\* ------------------------------------------------------ strategy registry

\* the names of the strategy classes, in the order in which
\* SudokuSolver.__init__ attaches them
InstalledOccupationStrategies(withCheating) ==
    <<"DeepCheckStrategy", "OneCandidateLeftStrategy", "RemainingInfluencerStrategy">>
    \o (IF withCheating THEN <<"Cheating">> ELSE <<>>)

InstalledInfluenceStrategies ==
    <<"XWingStrategy", "SwordFishStrategy", "HiddenPairsStrategy",
      "HiddenTriplesStrategy", "PointingPairsAndTriplesStrategy",
      "IndirectInfluencersStrategy">>

\* strategy.applyStrategy(i, j) of an occupation strategy
applyOccupationStrategy(name, b, solution, i, j) ==
    CASE name = "DeepCheckStrategy" -> DeepCheckStrategy(b, i, j)
      [] name = "OneCandidateLeftStrategy" -> OneCandidateLeftStrategy(b, i, j)
      [] name = "RemainingInfluencerStrategy" -> RemainingInfluencerStrategy(b, i, j)
      [] name = "Cheating" -> Cheating(b, solution, i, j)

\* strategy.applyStrategy() of an influence strategy
applyInfluenceStrategy(name, b) ==
    CASE name = "XWingStrategy" -> XWingStrategy(b)
      [] name = "SwordFishStrategy" -> SwordFishStrategy(b)
      [] name = "HiddenPairsStrategy" -> HiddenPairsStrategy(b)
      [] name = "HiddenTriplesStrategy" -> HiddenTriplesStrategy(b)
      [] name = "PointingPairsAndTriplesStrategy" -> PointingPairsAndTriplesStrategy(b)
      [] name = "IndirectInfluencersStrategy" -> IndirectInfluencersStrategy(b)

\* "for strategy in self.influenceStrategies: strategy.applyStrategy()"
RECURSIVE applyInfluenceStrategiesFrom(_, _, _)
applyInfluenceStrategiesFrom(strategies, b, k) ==
    IF k > Len(strategies) THEN b
    ELSE Only({ applyInfluenceStrategiesFrom(strategies, next, k + 1) :
             next \in { applyInfluenceStrategy(strategies[k], b) } })

applyInfluenceStrategies(strategies, b) == applyInfluenceStrategiesFrom(strategies, b, 1)

\* ----------------------------------------------------- canBeOccupied, occupy

RECURSIVE canBeOccupiedFrom(_, _, _, _, _, _)
canBeOccupiedFrom(strategies, b, solution, i, j, k) ==
    IF k > Len(strategies) THEN 0
    ELSE LET result == applyOccupationStrategy(strategies[k], b, solution, i, j)
         IN  IF result # 0 THEN result
             ELSE canBeOccupiedFrom(strategies, b, solution, i, j, k + 1)

\* SudokuSolver.canBeOccupied: 0 for an occupied cell; else the result of the
\* first occupation strategy, in installed order, that returns a result # 0
\* (Raised when that strategy raises)
canBeOccupied(strategies, b, solution, i, j) ==
    IF ~getElement(b, i, j).x
    THEN canBeOccupiedFrom(strategies, b, solution, i, j, 1)
    ELSE 0

\* A plausible slip: the written cell is not restored when the check fails.
occupyNoRollback(strategies, b, number, i, j) ==
    IF getElement(b, i, j).x THEN b
    ELSE LET written == setElement(b, i, j, [x |-> TRUE, y |-> number, z |-> {}])
         IN  IF ~checkConformanceOfBoard(written) THEN written
             ELSE applyInfluenceStrategies(strategies,
                    addInfluencerToRegionExclusive(written, number, i, j))

\* A plausible slip: the influencers are propagated before the check.
occupyPropagateFirst(strategies, b, number, i, j) ==
    IF getElement(b, i, j).x THEN b
    ELSE LET written == addInfluencerToRegionExclusive(
                setElement(b, i, j, [x |-> TRUE, y |-> number, z |-> {}]),
                number, i, j)
         IN  IF ~checkConformanceOfBoard(written)
             THEN setElement(written, i, j, getElement(b, i, j))
             ELSE applyInfluenceStrategies(strategies, written)

\* SudokuSolver.occupy: an occupied cell is left alone; else the cell is
\* written, the board is checked and, on a rule violation, the previous
\* content of the cell is restored; otherwise the number becomes an
\* influencer of the region and every influence strategy is applied
occupy(strategies, b, number, i, j) ==
    IF getElement(b, i, j).x THEN b
    ELSE LET written == setElement(b, i, j, [x |-> TRUE, y |-> number, z |-> {}])
         IN  IF ~checkConformanceOfBoard(written)
             THEN setElement(written, i, j, getElement(b, i, j))
             ELSE applyInfluenceStrategies(strategies,
                    addInfluencerToRegionExclusive(written, number, i, j))

\* A plausible slip: the loop returns at the first occupied cell.
isCompletedAny(b) == \E idx \in Cells : b[idx].x

\* SudokuSolver.isCompleted: every cell is occupied
isCompleted(b) == \A idx \in Cells : b[idx].x

\* ------------------------------------------------------------ conversions

\* A plausible slip: the two branches are exchanged.
turnBoardIntoStringSwapped(b) ==
    [k \in 1..(DIM * DIM) |-> IF b[k - 1].x THEN str(0) ELSE str(b[k - 1].y)] \o <<>>

\* Board.turnBoardIntoString: str(y) of an occupied cell, "0" of a vacant one
turnBoardIntoString(b) ==
    [k \in 1..(DIM * DIM) |-> IF b[k - 1].x THEN str(b[k - 1].y) ELSE str(0)] \o <<>>

\* sl.replace(" ", "")
RECURSIVE removeBlanks(_)
removeBlanks(sl) ==
    IF sl = <<>> THEN <<>>
    ELSE (IF Head(sl) = " " THEN <<>> ELSE <<Head(sl)>>) \o removeBlanks(Tail(sl))

\* A plausible slip: the length is not compared.
checkStringNoLength(sl) == \A idx \in 1..Len(sl) : sl[idx] \in DigitChars

\* SudokuSolver.checkString: DIM*DIM characters, each of them a digit
checkString(sl) ==
    /\ Len(sl) = DIM * DIM
    /\ \A idx \in 1..(DIM * DIM) : sl[idx] \in DigitChars

\* "for idx in range(0, DIM*DIM)", walked row by row: the indices
\* row * DIM + col for col = 0..DIM-1; sl[idx] past the end of sl raises
\* IndexError, which ends the loop with the cells written so far
RECURSIVE turnStringIntoBoardRow(_, _, _, _, _)
turnStringIntoBoardRow(strategies, b, sl, row, col) ==
    IF col >= DIM \/ row * DIM + col + 1 > Len(sl) THEN b
    ELSE LET idx == row * DIM + col
             val == int(sl[idx + 1])
         IN  Only({ turnStringIntoBoardRow(strategies, next, sl, row, col + 1) :
                 next \in { IF val # 0
                             THEN occupy(strategies, b, val, (idx \div DIM) + 1, (idx % DIM) + 1)
                             ELSE b } })

RECURSIVE turnStringIntoBoardFrom(_, _, _, _)
turnStringIntoBoardFrom(strategies, b, sl, row) ==
    IF row >= DIM THEN b
    ELSE Only({ turnStringIntoBoardFrom(strategies, next, sl, row + 1) :
             next \in { turnStringIntoBoardRow(strategies, b, sl, row, 0) } })

\* SudokuSolver.turnStringIntoBoard, as the board it leaves: the blanks are
\* removed, "assert(self.checkString(sl))" raises before any cell is
\* written, and every digit other than 0 is passed to occupy in index order
turnStringIntoBoard(strategies, b, sl) ==
    IF ~checkString(removeBlanks(sl)) THEN b
    ELSE turnStringIntoBoardFrom(strategies, b, removeBlanks(sl), 0)

\* ---------------------------------------------------------------- solveBF

\* string.find(c): the index, from 0, of the first c in string, -1 without one
find(string, c) ==
    IF \E k \in 1..Len(string) : string[k] = c
    THEN Min({k \in 1..Len(string) : string[k] = c}) - 1
    ELSE -1

\* SudokuSolver.wellFormed
wellFormed(string) == \A idx \in 0..(DIM * DIM - 1) : string[idx + 1] \in DigitChars

\* solveBruteForce.influencer: the cells at indices i and j share a row, a
\* column or a quadrant
influencer(i, j) ==
    \/ i \div DIM = j \div DIM
    \/ i % DIM = j % DIM
    \/ /\ (i \div DIM) \div dim = (j \div DIM) \div dim
       /\ (i % DIM) \div dim = (j % DIM) \div dim

\* solveBruteForce(string): the strings the run assigns to self.bfs. Every
\* candidate of the first vacancy is tried, the search never stops at a
\* completed string, and the loop runs over a set of strings, so which of the
\* recorded strings is assigned last depends on the iteration order of the set.
RECURSIVE solveBruteForce(_)
solveBruteForce(string) ==
    UNION { solveBruteForce(tried) \cup (IF find(tried, "0") = -1 THEN {tried} ELSE {}) :
            tried \in { SubSeq(string, 1, IF vacancy = -1 THEN Len(string) - 1 ELSE vacancy)
                           \o <<num>>
                           \o SubSeq(string, IF vacancy = -1 THEN 1 ELSE vacancy + 2,
                                     Len(string)) :
                        vacancy \in { find(string, "0") },
                        num \in { str(n) : n \in Numbers }
                                  \ { string[j + 1] : j \in { k \in 0..(Len(string) - 1) :
                                          influencer(find(string, "0"), k) } } } }

\* SudokuSolver.solveBF(string) with self.bfs = stale before the call: the
\* values the call can return. A run that records nothing returns the bfs of
\* an earlier call.
solveBF(string, stale) ==
    IF Len(string) # DIM * DIM THEN { <<>> }
    ELSE IF ~wellFormed(string) THEN { <<>> }
    ELSE Only({ IF recorded = {} THEN {stale} ELSE recorded :
                recorded \in { solveBruteForce(string) } })

\* ------------------------------------------------------------ the generator
\* A generator board is the tuple of its DIM * DIM numbers in row-major
\* order; rows and columns count from 0 as in generator.py.

\* A plausible slip: the quadrant is not looked at.
canBeUsedInLines(g, number, row, col) ==
    /\ \A j \in 0..(DIM - 1) : g[row * DIM + j + 1] # number
    /\ \A i \in 0..(DIM - 1) : g[i * DIM + col + 1] # number

\* SudokuGenerator.canBeUsed
canBeUsed(g, number, row, col) ==
    /\ \A j \in 0..(DIM - 1) : g[row * DIM + j + 1] # number
    /\ \A i \in 0..(DIM - 1) : g[i * DIM + col + 1] # number
    /\ \A i \in ((row \div dim) * dim)..((row \div dim) * dim + dim - 1) :
         \A j \in ((col \div dim) * dim)..((col \div dim) * dim + dim - 1) :
            g[i * DIM + j + 1] # number

\* SudokuGenerator.nextVacantCell: (i, j) of the first vacant cell, None
\* (here the empty tuple) when every cell is occupied
nextVacantCell(g) ==
    IF \A k \in 1..(DIM * DIM) : g[k] # 0 THEN <<>>
    ELSE LET k == Min({n \in 1..(DIM * DIM) : g[n] = 0})
         IN  <<(k - 1) \div DIM, (k - 1) % DIM>>

\* the sum of count[n] over the numbers n of a set
RECURSIVE SumOver(_, _)
SumOver(count, S) ==
    IF S = {} THEN 0 ELSE count[Min(S)] + SumOver(count, S \ {Min(S)})

\* SudokuGenerator.solve(board): by how much the call raises noOfSolutions.
\* The first vacant cell takes, in ascending order, every number canBeUsed
\* admits; a number that fills the last vacant cell is counted and ends the
\* loop, any other one is followed by a recursive call, whose result is
\* always False. The cell still holds the number tried before when the next
\* one is tested, which canBeUsed cannot tell from a vacant cell because the
\* two numbers differ.
RECURSIVE solve(_)
solve(g) ==
    IF nextVacantCell(g) = <<>> THEN 0
    ELSE LET cell == nextVacantCell(g)
             idx == cell[1] * DIM + cell[2] + 1
             usable == { n \in Numbers : canBeUsed(g, n, cell[1], cell[2]) }
         IN  IF \A k \in 1..(DIM * DIM) : k # idx => g[k] # 0
             THEN IF usable = {} THEN 0 ELSE 1
             ELSE SumOver([n \in usable |-> solve([g EXCEPT ![idx] = n])], usable)

\* SudokuGenerator.solve(board): the board the call leaves.  The numbers are
\* written into the first vacant cell one after the other, the recursive call
\* works on the same list, and "board[row][col]=0" after the loops clears the
\* cell; with no vacant cell the loop over i ends with row = col = DIM - 1,
\* and it is this cell that is cleared.
RECURSIVE solveBoard(_), solveBoardFrom(_, _, _)
solveBoard(g) ==
    IF nextVacantCell(g) = <<>> THEN [g EXCEPT ![DIM * DIM] = 0]
    ELSE solveBoardFrom(g, nextVacantCell(g)[1] * DIM + nextVacantCell(g)[2] + 1, 1)

\* "for number in numbers", from number on, for the cell at idx
solveBoardFrom(g, idx, number) ==
    IF number > DIM THEN [g EXCEPT ![idx] = 0]
    ELSE IF ~canBeUsed(g, number, (idx - 1) \div DIM, (idx - 1) % DIM)
    THEN solveBoardFrom(g, idx, number + 1)
    ELSE IF nextVacantCell([g EXCEPT ![idx] = number]) = <<>>
    THEN [g EXCEPT ![idx] = 0]
    ELSE Only({ solveBoardFrom(next, idx, number + 1) :
             next \in { solveBoard([g EXCEPT ![idx] = number]) } })

\* a completed board, and the same board with every number n written n % DIM + 1
Completed ==
    <<5, 3, 4, 6, 7, 8, 9, 1, 2,
      6, 7, 2, 1, 9, 5, 3, 4, 8,
      1, 9, 8, 3, 4, 2, 5, 6, 7,
      8, 5, 9, 7, 6, 1, 4, 2, 3,
      4, 2, 6, 8, 5, 3, 7, 9, 1,
      7, 1, 3, 9, 2, 4, 8, 5, 6,
      9, 6, 1, 5, 3, 7, 2, 8, 4,
      2, 8, 7, 4, 1, 9, 6, 3, 5,
      3, 4, 5, 2, 8, 6, 1, 7, 9>>

Renumbered == [k \in 1..(DIM * DIM) |-> (Completed[k] % DIM) + 1]

\* SudokuGenerator.createSolution on the board of zeros: the boards the call
\* can leave. The numbers are shuffled for every cell, and the search ends
\* at the first board without a vacant cell, every number of which canBeUsed
\* admitted when it was written.
createSolution ==
    { g \in { Completed, Renumbered } :
        \A k \in 1..(DIM * DIM) :
            canBeUsed([g EXCEPT ![k] = 0], g[k], (k - 1) \div DIM, (k - 1) % DIM) }

\* the cells, as (row, col), whose numbers can be exchanged in pairs in the
\* boards above, four groups of four cells
Exchangeable ==
    << <<0, 3>>, <<0, 4>>, <<3, 3>>, <<3, 4>>,
       <<1, 7>>, <<1, 8>>, <<6, 7>>, <<6, 8>>,
       <<2, 4>>, <<2, 5>>, <<5, 4>>, <<5, 5>>,
       <<3, 5>>, <<3, 8>>, <<4, 5>>, <<4, 8>> >>

\* the sequence seq with the elements that occur in last moved to its end
MovedToEnd(seq, last) ==
    SelectSeq(seq, LAMBDA c : \A k \in 1..Len(last) : last[k] # c) \o last

\* SudokuGenerator.getOccupiedCells: the occupied cells in row-major order,
\* shuffled. Of the orders a shuffle can give, the ones that end with the
\* cells above, forwards or backwards.
getOccupiedCells(g) ==
    { MovedToEnd(SelectSeq([k \in 1..(DIM * DIM) |-> <<(k - 1) \div DIM, (k - 1) % DIM>>],
                           LAMBDA c : g[c[1] * DIM + c[2] + 1] # 0), last) :
      last \in { Exchangeable,
                 [k \in 1..Len(Exchangeable) |-> Exchangeable[Len(Exchangeable) + 1 - k]] } }

\* ================================================================ the solver
\* The state of one SudokuSolver object and of the driver that calls it.

\* a string as Python indexes it: the sequence of its characters
StringOf(numbers) == [k \in 1..Len(numbers) |-> str(numbers[k])] \o <<>>

\* the digits of a board with nine clues in its first three rows
SparseClues ==
    <<0, 2, 3, 0, 0, 0, 0, 0, 0,
      7, 0, 0, 1, 0, 0, 4, 5, 6,
      4, 0, 0, 0, 0, 0, 0, 0, 1>>

Sparse == StringOf(SparseClues \o [k \in 1..(DIM * DIM - Len(SparseClues)) |-> 0])

\* the strings the driver passes to turnStringIntoBoard: a board, the same
\* board written with a blank, a string of 80 characters, a string with a
\* letter, and a string whose second digit repeats the first in its row
BoardInputs ==
    { Sparse,
      SubSeq(Sparse, 1, DIM) \o <<" ">> \o SubSeq(Sparse, DIM + 1, DIM * DIM),
      SubSeq(Sparse, 1, DIM * DIM - 1),
      [Sparse EXCEPT ![5] = "x"],
      [Sparse EXCEPT ![1] = "2"] }

\* the arguments (number, i, j) the driver passes to occupy
BoardMoves == { <<9, 2, 2>>, <<2, 1, 1>>, <<3, 1, 3>> }

\* boards with few vacant cells, as strings: one with a single completion,
\* one with two (four of its vacant cells can take 6 and 7 both ways), and
\* one that conforms to the rules but has no completion (the 5 of the first
\* row leaves no number for its first cell)
Puzzles ==
    { StringOf([Completed EXCEPT ![1] = 0, ![25] = 0, ![41] = 0, ![81] = 0]),
      StringOf([Completed EXCEPT ![4] = 0, ![5] = 0, ![31] = 0, ![32] = 0, ![81] = 0]),
      StringOf([Completed EXCEPT ![1] = 0, ![2] = 5, ![29] = 0]) }

\* the arguments the driver passes to occupy on these boards
PuzzleMoves == { <<3, 1, 1>>, <<5, 1, 1>>, <<7, 1, 4>> }

\* the orders shuffle(list) can leave, of which the model takes two
Shuffles(list) == { list, [k \in 1..Len(list) |-> list[Len(list) + 1 - k]] }

VARIABLES
    board,                  \* SudokuSolver.board._data
    withCheating,           \* SudokuSolver.withCheating
    occupationStrategies,   \* SudokuSolver.occupationStrategies, by class name
    influenceStrategies,    \* SudokuSolver.influenceStrategies, by class name
    bfs,                    \* SudokuSolver.bfs
    solution,               \* Board.solution
    steps,                  \* SudokuSolver.steps
    changes,                \* solve: changes
    info,                   \* solve: info
    cursor,                 \* solve: the index of the next cell of the pass
    pending,                \* solve: (n, index) found by canBeOccupied
    pc,                     \* where solve stands: idle when no call is running
    result,                 \* what the last solve returned
    call,                   \* the last call of the driver and how it ended
    calls,                  \* the number of calls made
    fresh,                  \* the board of a second solver, loaded from a string
    viaOccupy,              \* the board was reached by occupy calls alone
    strategyBoard,          \* the _data of the Board the strategies hold, when it
                            \* is not the object self.board: <<_data>>, else <<>>
    gboard,                 \* SudokuGenerator.board
    occupiedCells,          \* eliminateNumbers: occupiedCells
    noOfOccupiedCells,      \* eliminateNumbers: noOfOccupiedCells
    iters,                  \* eliminateNumbers: iters
    minimumOccupancy,       \* eliminateNumbers: minimumOccupancy
    noOfSolutions,          \* SudokuGenerator.noOfSolutions
    requested,              \* createSudoku: minimumOccupancy
    gpc,                    \* where createSudoku stands
    frames                  \* createSolution: the calls that have not returned

solverVars ==
    <<board, withCheating, occupationStrategies, influenceStrategies, bfs,
      solution, steps, changes, info, cursor, pending, pc, result, call,
      calls, fresh, viaOccupy, strategyBoard>>

solveVars == <<bfs, solution, steps, changes, info, cursor, pending, pc, result>>

generatorVars ==
    <<gboard, occupiedCells, noOfOccupiedCells, iters, minimumOccupancy,
      noOfSolutions, requested, gpc, frames>>

vars == <<solverVars, generatorVars>>

\* SudokuSolver.__init__(withCheating, withMonitoring) and reinitialize; no
\* SudokuGenerator has run
Constructed(cheating) ==
    /\ board = EmptyBoard
    /\ withCheating = cheating
    /\ occupationStrategies = InstalledOccupationStrategies(cheating)
    /\ influenceStrategies = InstalledInfluenceStrategies
    /\ bfs = <<>>
    /\ solution = <<>>
    /\ steps = 0
    /\ changes = 0
    /\ info = "NONE"
    /\ cursor = 0
    /\ pending = <<>>
    /\ pc = "idle"
    /\ result = "none"
    /\ call = [op |-> "none"]
    /\ calls = 0
    /\ fresh = <<>>
    /\ viaOccupy = TRUE
    /\ strategyBoard = <<>>
    /\ gboard = [k \in 1..(DIM * DIM) |-> 0]
    /\ occupiedCells = <<>>
    /\ noOfOccupiedCells = 0
    /\ iters = 0
    /\ minimumOccupancy = 0
    /\ noOfSolutions = 0
    /\ requested = 0
    /\ gpc = "idle"
    /\ frames = <<>>

\* how occupy(number, i, j) ends on board b
occupyOutcome(b, number, i, j) ==
    IF getElement(b, i, j).x THEN "occupied"
    ELSE IF ~checkConformanceOfBoard(
                setElement(b, i, j, [x |-> TRUE, y |-> number, z |-> {}]))
    THEN "restored"
    ELSE "committed"

\* the driver calls solver.turnStringIntoBoard(sl)
Load(sl) ==
    /\ pc = "idle"
    /\ fresh = <<>>
    /\ board' = turnStringIntoBoard(influenceStrategies, board, sl)
    /\ call' = [op |-> "turnStringIntoBoard", sl |-> sl,
                accepted |-> checkString(removeBlanks(sl))]
    /\ calls' = calls + 1
    /\ UNCHANGED <<withCheating, occupationStrategies, influenceStrategies,
                   solveVars, fresh, viaOccupy, generatorVars, strategyBoard>>

\* the driver calls solver.occupy(number, i, j)
Occupy(number, i, j) ==
    /\ pc = "idle"
    /\ fresh = <<>>
    /\ board' = occupy(influenceStrategies, board, number, i, j)
    /\ call' = [op |-> "occupy", number |-> number, i |-> i, j |-> j,
                outcome |-> occupyOutcome(board, number, i, j)]
    /\ calls' = calls + 1
    /\ UNCHANGED <<withCheating, occupationStrategies, influenceStrategies,
                   solveVars, fresh, viaOccupy, generatorVars, strategyBoard>>

\* the driver calls applyStrategy() of one installed influence strategy
ApplyStrategy(name) ==
    /\ pc = "idle"
    /\ fresh = <<>>
    /\ board' = applyInfluenceStrategy(name, board)
    /\ call' = [op |-> "applyStrategy", name |-> name]
    /\ calls' = calls + 1
    /\ viaOccupy' = FALSE
    /\ UNCHANGED <<withCheating, occupationStrategies, influenceStrategies,
                   solveVars, fresh, generatorVars, strategyBoard>>

\* after an occupy that went through, the driver encodes the board with
\* turnBoardIntoString and loads the string into a newly constructed solver
EncodeAndReload ==
    /\ pc = "idle"
    /\ fresh = <<>>
    /\ viaOccupy
    /\ call.op = "occupy"
    /\ call.outcome = "committed"
    /\ fresh' = <<turnStringIntoBoard(InstalledInfluenceStrategies, EmptyBoard,
                                      turnBoardIntoString(board))>>
    /\ UNCHANGED <<board, withCheating, occupationStrategies, influenceStrategies,
                   solveVars, call, calls, viaOccupy, generatorVars,
                   strategyBoard>>

\* the driver calls solver.solveBF(string): the two early returns leave
\* self.bfs alone, every other call returns self.bfs as the search left it
SolveBF(string) ==
    /\ pc = "idle"
    /\ fresh = <<>>
    /\ \E returned \in solveBF(string, bfs) :
         /\ bfs' = IF Len(string) # DIM * DIM THEN bfs
                   ELSE IF ~wellFormed(string) THEN bfs
                   ELSE returned
         /\ call' = [op |-> "solveBF", string |-> string, returned |-> returned]
    /\ calls' = calls + 1
    /\ UNCHANGED <<board, withCheating, occupationStrategies, influenceStrategies,
                   solution, steps, changes, info, cursor, pending, pc, result,
                   fresh, viaOccupy, generatorVars, strategyBoard>>

\* ------------------------------------------------------ SudokuSolver.solve
\* solve is one call; the model stops it where it reads the console and
\* before each commit, so that a pass over the cells can be told from the next.

\* the commits one call of solve is followed for
MaxSteps == 6

\* the driver calls solver.solve(info): the conformance check, and with
\* cheating the brute force solution, up to the head of the while loop
Solve(i) ==
    /\ pc = "idle"
    /\ fresh = <<>>
    /\ call' = [op |-> "solve", info |-> i, quit |-> FALSE, stuck |-> FALSE]
    /\ calls' = calls + 1
    /\ IF ~checkConformanceOfBoard(board)
       THEN /\ result' = "None"
            /\ UNCHANGED <<bfs, solution, steps, changes, info, cursor, pc>>
       ELSE /\ \E returned \in (IF withCheating
                                THEN solveBF(turnBoardIntoString(board), bfs)
                                ELSE { solution }) :
                 /\ solution' = returned
                 /\ bfs' = IF withCheating THEN returned ELSE bfs
            /\ steps' = 0
            /\ info' = i
            /\ changes' = 0
            /\ cursor' = 0
            /\ pc' = IF isCompleted(board) THEN "idle" ELSE "pass"
            /\ result' = IF isCompleted(board) THEN "True" ELSE "running"
    /\ UNCHANGED <<board, withCheating, occupationStrategies, influenceStrategies,
                   pending, fresh, viaOccupy, generatorVars, strategyBoard>>

\* the two for loops of solve from cell `cursor` on, up to the next cell
\* canBeOccupied names a number for; at the end of the pass the test of
\* changes and the test of the while loop
SolvePass ==
    /\ pc = "pass"
    /\ \E found \in { { k \in cursor..(DIM * DIM - 1) :
                          canBeOccupied(occupationStrategies, board, solution,
                                        (k \div DIM) + 1, (k % DIM) + 1) # 0 } } :
         IF found = {}
         THEN /\ pc' = IF changes = 0 THEN "stuck"
                       ELSE IF isCompleted(board) THEN "idle" ELSE "pass"
              /\ result' = IF changes # 0 /\ isCompleted(board) THEN "True" ELSE result
              /\ call' = IF changes = 0 THEN [call EXCEPT !.stuck = TRUE] ELSE call
              /\ changes' = 0
              /\ cursor' = 0
              /\ pending' = <<>>
         ELSE \E n \in { canBeOccupied(occupationStrategies, board, solution,
                                       (Min(found) \div DIM) + 1, (Min(found) % DIM) + 1) } :
                /\ pc' = IF n = Raised THEN "idle"
                         ELSE IF info # "NONE" THEN "prompt" ELSE "commit"
                /\ result' = IF n = Raised THEN "Raised" ELSE result
                /\ pending' = IF n = Raised THEN <<>> ELSE <<n, Min(found)>>
                /\ UNCHANGED <<call, changes, cursor>>
    /\ UNCHANGED <<board, withCheating, occupationStrategies, influenceStrategies,
                   bfs, solution, steps, info, calls, fresh, viaOccupy, generatorVars,
                   strategyBoard>>

\* value = input(" ---> ") and the match on it
SolvePrompt(value) ==
    /\ pc = "prompt"
    /\ pc' = IF value = "q" THEN "idle" ELSE "commit"
    /\ result' = IF value = "q" THEN "True" ELSE result
    /\ call' = IF value = "q" THEN [call EXCEPT !.quit = TRUE] ELSE call
    /\ pending' = IF value = "q" THEN <<>> ELSE pending
    /\ info' = IF value = "n" THEN "NONE" ELSE info
    /\ IF value = "s"
       THEN /\ occupationStrategies' \in Shuffles(occupationStrategies)
            /\ influenceStrategies' \in Shuffles(influenceStrategies)
       ELSE UNCHANGED <<occupationStrategies, influenceStrategies, strategyBoard>>
    /\ UNCHANGED <<board, withCheating, bfs, solution, steps, changes, cursor,
                   calls, fresh, viaOccupy, generatorVars, strategyBoard>>

\* self.occupy(n, i, j), steps += 1, changes += 1
SolveCommit ==
    /\ pc = "commit"
    /\ steps < MaxSteps
    /\ board' = occupy(influenceStrategies, board, pending[1],
                       (pending[2] \div DIM) + 1, (pending[2] % DIM) + 1)
    /\ steps' = steps + 1
    /\ changes' = changes + 1
    /\ cursor' = pending[2] + 1
    /\ pending' = <<>>
    /\ pc' = "pass"
    /\ UNCHANGED <<withCheating, occupationStrategies, influenceStrategies, bfs,
                   solution, info, result, call, calls, fresh, viaOccupy,
                   generatorVars, strategyBoard>>

\* the loop "while not ready" after a pass without a commit: q ends it, w
\* ends it after the board is written to a file, anything else is read over
SolveStuck(value) ==
    /\ pc = "stuck"
    /\ pc' = IF value \in {"q", "w"} THEN "idle" ELSE pc
    /\ result' = IF value \in {"q", "w"} THEN "False" ELSE result
    /\ UNCHANGED <<board, withCheating, occupationStrategies, influenceStrategies,
                   bfs, solution, steps, changes, info, cursor, pending, call,
                   calls, fresh, viaOccupy, generatorVars, strategyBoard>>

\* ------------------------------------------- SudokuGenerator.createSudoku

\* createSudoku(minimumOccupancy = m) up to the head of the loop of
\* eliminateNumbers: reinitialize, createSolution, and
\* eliminateNumbers(minimumOccupancy = 20) with its shuffled list of cells
CreateSudoku(m) ==
    /\ gpc = "idle"
    /\ requested' = m
    /\ \E g \in createSolution : \E cells \in getOccupiedCells(g) :
         /\ gboard' = g
         /\ occupiedCells' = cells
         /\ noOfOccupiedCells' = Len(cells)
    /\ noOfSolutions' = 0
    /\ minimumOccupancy' = 20
    /\ iters' = 4
    /\ gpc' = "eliminateNumbers"
    /\ UNCHANGED <<solverVars, frames>>

\* A plausible slip: the cell stays cleared whatever solve has counted.
EliminateNumbersNoRollback ==
    /\ gpc = "eliminateNumbers"
    /\ iters > 0
    /\ noOfOccupiedCells >= minimumOccupancy
    /\ \E cell \in { occupiedCells[Len(occupiedCells)] } :
       \E cleared \in { [gboard EXCEPT ![cell[1] * DIM + cell[2] + 1] = 0] } :
       \E counted \in { solve(cleared) } :
         /\ occupiedCells' = SubSeq(occupiedCells, 1, Len(occupiedCells) - 1)
         /\ noOfSolutions' = counted
         /\ gboard' = cleared
         /\ noOfOccupiedCells' = noOfOccupiedCells - 1
         /\ iters' = IF counted # 1 THEN iters - 1 ELSE iters
    /\ UNCHANGED <<minimumOccupancy, requested, gpc, frames, solverVars>>

\* one iteration of the loop of eliminateNumbers: the last cell of the list
\* is cleared, solve counts the completions of a copy of the board, and
\* unless it counts one the cell is restored and an attempt is used up
EliminateNumbers ==
    /\ gpc = "eliminateNumbers"
    /\ iters > 0
    /\ noOfOccupiedCells >= minimumOccupancy
    /\ \E cell \in { occupiedCells[Len(occupiedCells)] } :
       \E cleared \in { [gboard EXCEPT ![cell[1] * DIM + cell[2] + 1] = 0] } :
       \E counted \in { solve(cleared) } :
         /\ occupiedCells' = SubSeq(occupiedCells, 1, Len(occupiedCells) - 1)
         /\ noOfSolutions' = counted
         /\ gboard' = IF counted # 1 THEN gboard ELSE cleared
         /\ noOfOccupiedCells' = IF counted # 1 THEN noOfOccupiedCells
                                 ELSE noOfOccupiedCells - 1
         /\ iters' = IF counted # 1 THEN iters - 1 ELSE iters
    /\ UNCHANGED <<minimumOccupancy, requested, gpc, frames, solverVars>>

\* the loop of eliminateNumbers ends and createSudoku returns self.board
ReturnSudoku ==
    /\ gpc = "eliminateNumbers"
    /\ ~(iters > 0 /\ noOfOccupiedCells >= minimumOccupancy)
    /\ gpc' = "returned"
    /\ UNCHANGED <<gboard, occupiedCells, noOfOccupiedCells, iters,
                   minimumOccupancy, noOfSolutions, requested, frames, solverVars>>

\* ---------------------------------- createSolution, number by number

\* the number of cells, from the first one, for which the model takes more
\* than one of the orders shuffle(numbers) can leave
MaxShuffled == 3

\* "numbers = [n for n in range(1, DIM+1)]" after "shuffle(numbers)" in the
\* call that works on the cell at idx
ShuffledNumbers(idx) ==
    IF idx <= MaxShuffled THEN Shuffles([n \in 1..DIM |-> n]) ELSE { [n \in 1..DIM |-> n] }

\* the index of the first vacant cell of g, row-major from 1
firstVacant(g) == nextVacantCell(g)[1] * DIM + nextVacantCell(g)[2] + 1

\* createSudoku: reinitialize() and the call createSolution(self.board), up
\* to the head of its loop over the shuffled numbers.  A frame is one call of
\* createSolution: its cell, its numbers and the place of its loop in them.
CreateSolutionCall ==
    /\ gpc = "idle"
    /\ gboard' = [k \in 1..(DIM * DIM) |-> 0]
    /\ noOfSolutions' = 0
    /\ \E numbers \in ShuffledNumbers(1) :
          frames' = << [idx |-> 1, numbers |-> numbers, at |-> 1] >>
    /\ gpc' = "createSolution"
    /\ UNCHANGED <<solverVars, occupiedCells, noOfOccupiedCells, iters,
                   minimumOccupancy, requested>>

\* one round of "for number in numbers" in the innermost call: a number that
\* canBeUsed refuses is passed over; else it is written, and either the board
\* has no vacant cell and every call returns True, or createSolution is called
\* for the next vacant cell and shuffles its numbers
CreateSolutionTry ==
    /\ gpc = "createSolution"
    /\ frames[Len(frames)].at <= DIM
    /\ \E f \in { frames[Len(frames)] } :
       \E advanced \in { [frames EXCEPT ![Len(frames)].at = @ + 1] } :
          IF ~canBeUsed(gboard, f.numbers[f.at], (f.idx - 1) \div DIM, (f.idx - 1) % DIM)
          THEN frames' = advanced /\ UNCHANGED <<gboard, gpc>>
          ELSE \E placed \in { [gboard EXCEPT ![f.idx] = f.numbers[f.at]] } :
                  /\ gboard' = placed
                  /\ IF nextVacantCell(placed) = <<>>
                     THEN frames' = <<>> /\ gpc' = "created"
                     ELSE /\ \E numbers \in ShuffledNumbers(firstVacant(placed)) :
                                frames' = Append(advanced,
                                                 [idx |-> firstVacant(placed),
                                                  numbers |-> numbers, at |-> 1])
                          /\ UNCHANGED gpc
    /\ UNCHANGED <<solverVars, occupiedCells, noOfOccupiedCells, iters,
                   minimumOccupancy, noOfSolutions, requested>>

\* the numbers of the innermost call are used up: "board[row][col] = 0" and
\* "return False" to the call before, or to createSudoku
CreateSolutionBack ==
    /\ gpc = "createSolution"
    /\ frames[Len(frames)].at > DIM
    /\ gboard' = [gboard EXCEPT ![frames[Len(frames)].idx] = 0]
    /\ frames' = SubSeq(frames, 1, Len(frames) - 1)
    /\ gpc' = IF Len(frames) = 1 THEN "failed" ELSE gpc
    /\ UNCHANGED <<solverVars, occupiedCells, noOfOccupiedCells, iters,
                   minimumOccupancy, noOfSolutions, requested>>

\* the driver calls generator.solve(board) on a board g of its own; solve
\* adds what it counts to self.noOfSolutions
CountSolutions(g) ==
    /\ gpc = "idle"
    /\ pc = "idle"
    /\ gboard' = solveBoard(g)
    /\ noOfSolutions' = noOfSolutions + solve(g)
    /\ call' = [op |-> "solve(board)", board |-> g, noOfSolutions |-> noOfSolutions]
    /\ calls' = calls + 1
    /\ UNCHANGED <<board, withCheating, occupationStrategies, influenceStrategies,
                   solveVars, fresh, viaOccupy, occupiedCells, noOfOccupiedCells,
                   iters, minimumOccupancy, requested, gpc, frames,
                   strategyBoard>>

\* the driver sets generator.noOfSolutions = 0
ResetNoOfSolutions ==
    /\ gpc = "idle"
    /\ noOfSolutions # 0
    /\ noOfSolutions' = 0
    /\ call' = [op |-> "noOfSolutions = 0"]
    /\ UNCHANGED <<board, withCheating, occupationStrategies, influenceStrategies,
                   solveVars, calls, fresh, viaOccupy, gboard, occupiedCells,
                   noOfOccupiedCells, iters, minimumOccupancy, requested, gpc,
                   frames, strategyBoard>>

\* the values of minimumOccupancy the driver passes to createSudoku
Requests == { 17, 30, 75 }

\* ------------------------------------------------ occupy, step by step

\* The steps of SudokuSolver.occupy, one action each.  call holds the
\* arguments, the saved content of the cell (x_old, y_old, z_old), the index
\* of the next influence strategy and the list of the steps taken so far; pc
\* is the place in the body of occupy.

\* occupy(number, i, j) up to "self.board.setElement(i,j, (x,y,z))"; on an
\* occupied cell it prints the error and returns
OccupyWrite(number, i, j) ==
    /\ pc = "idle"
    /\ fresh = <<>>
    /\ calls' = calls + 1
    /\ IF getElement(board, i, j).x
       THEN /\ call' = [op |-> "occupy", number |-> number, i |-> i, j |-> j,
                        old |-> getElement(board, i, j), strategy |-> 0,
                        done |-> <<>>]
            /\ UNCHANGED <<board, pc>>
       ELSE /\ board' = setElement(board, i, j, [x |-> TRUE, y |-> number, z |-> {}])
            /\ call' = [op |-> "occupy", number |-> number, i |-> i, j |-> j,
                        old |-> getElement(board, i, j), strategy |-> 0,
                        done |-> <<"setElement">>]
            /\ pc' = "written"
    /\ UNCHANGED <<withCheating, occupationStrategies, influenceStrategies, bfs,
                   solution, steps, changes, info, cursor, pending, result,
                   fresh, viaOccupy, generatorVars, strategyBoard>>

\* A plausible slip: the result of the check is not looked at.
OccupyCheckIgnored ==
    /\ pc = "written"
    /\ call' = [call EXCEPT !.done = Append(@, "checkConformanceOfBoard")]
    /\ pc' = "conformant"
    /\ UNCHANGED <<board, withCheating, occupationStrategies, influenceStrategies,
                   bfs, solution, steps, changes, info, cursor, pending, result,
                   calls, fresh, viaOccupy, generatorVars, strategyBoard>>

\* "if not self.board.checkConformanceOfBoard()": the previous content is
\* restored and occupy returns; else the else branch is entered
OccupyCheck ==
    /\ pc = "written"
    /\ IF ~checkConformanceOfBoard(board)
       THEN /\ board' = setElement(board, call.i, call.j, call.old)
            /\ call' = [call EXCEPT !.done = @ \o <<"checkConformanceOfBoard", "restore">>]
            /\ pc' = "idle"
       ELSE /\ call' = [call EXCEPT !.done = Append(@, "checkConformanceOfBoard")]
            /\ pc' = "conformant"
            /\ UNCHANGED board
    /\ UNCHANGED <<withCheating, occupationStrategies, influenceStrategies, bfs,
                   solution, steps, changes, info, cursor, pending, result,
                   calls, fresh, viaOccupy, generatorVars, strategyBoard>>

\* "self.board.addInfluencerToRegionExclusive(number, i, j)"
OccupyPropagate ==
    /\ pc = "conformant"
    /\ board' = addInfluencerToRegionExclusive(board, call.number, call.i, call.j)
    /\ call' = [call EXCEPT !.done = Append(@, "addInfluencerToRegionExclusive"),
                            !.strategy = 1]
    /\ pc' = IF Len(influenceStrategies) = 0 THEN "idle" ELSE "strategies"
    /\ UNCHANGED <<withCheating, occupationStrategies, influenceStrategies, bfs,
                   solution, steps, changes, info, cursor, pending, result,
                   calls, fresh, viaOccupy, generatorVars, strategyBoard>>

\* one round of "for strategy in self.influenceStrategies:
\* strategy.applyStrategy()"; occupy returns after the last one
OccupyStrategy ==
    /\ pc = "strategies"
    /\ board' = applyInfluenceStrategy(influenceStrategies[call.strategy], board)
    /\ call' = [call EXCEPT !.done = Append(@, influenceStrategies[call.strategy]),
                            !.strategy = @ + 1]
    /\ pc' = IF call.strategy = Len(influenceStrategies) THEN "idle" ELSE "strategies"
    /\ UNCHANGED <<withCheating, occupationStrategies, influenceStrategies, bfs,
                   solution, steps, changes, info, cursor, pending, result,
                   calls, fresh, viaOccupy, generatorVars, strategyBoard>>

\* ------------------------------------- the Board the strategies work on

\* Each strategy keeps the Board it was constructed with in its own
\* self.board (SudokuSolver.__init__ passes self.board).  held is <<>> while
\* that object is the solver's self.board, and <<_data>> of the other object
\* once the solver has assigned a new Board to self.board.

\* SudokuSolver.occupy on the boards b (self.board) and held: the cell is
\* written, checked and restored on b, the number is propagated on b, and
\* each influence strategy runs on the Board it holds
occupyHeld(strategies, b, held, number, i, j) ==
    IF getElement(b, i, j).x THEN [board |-> b, held |-> held]
    ELSE LET written == setElement(b, i, j, [x |-> TRUE, y |-> number, z |-> {}])
         IN  IF ~checkConformanceOfBoard(written) THEN [board |-> b, held |-> held]
             ELSE IF held = <<>>
             THEN [board |-> applyInfluenceStrategies(strategies,
                                addInfluencerToRegionExclusive(written, number, i, j)),
                   held |-> <<>>]
             ELSE [board |-> addInfluencerToRegionExclusive(written, number, i, j),
                   held |-> <<applyInfluenceStrategies(strategies, held[1])>>]

\* SudokuSolver.canBeOccupied: x is read from self.board, the strategies
\* read the Board they hold
canBeOccupiedHeld(strategies, b, held, bfsolution, i, j) ==
    IF ~getElement(b, i, j).x
    THEN canBeOccupiedFrom(strategies, IF held = <<>> THEN b ELSE held[1],
                           bfsolution, i, j, 1)
    ELSE 0

\* "for i in range(0, DIM*DIM): ... self.occupy(num, ...)" of turnListIntoBoard,
\* walked row by row: the indices row * DIM + col for col = 0..DIM-1
RECURSIVE turnListIntoBoardRow(_, _, _, _, _)
turnListIntoBoardRow(strategies, boards, rows, row, col) ==
    IF col >= DIM THEN boards
    ELSE LET i == row * DIM + col
         IN  Only({ turnListIntoBoardRow(strategies, next, rows, row, col + 1) :
                 next \in { IF rows[i + 1] # 0
                             THEN occupyHeld(strategies, boards.board, boards.held,
                                             rows[i + 1], (i \div DIM) + 1, (i % DIM) + 1)
                             ELSE boards } })

RECURSIVE turnListIntoBoardFrom(_, _, _, _)
turnListIntoBoardFrom(strategies, boards, rows, row) ==
    IF row >= DIM THEN boards
    ELSE Only({ turnListIntoBoardFrom(strategies, next, rows, row + 1) :
             next \in { turnListIntoBoardRow(strategies, boards, rows, row, 0) } })

\* SudokuSolver.turnListIntoBoard: the numbers are passed to occupy; if the
\* board does not conform afterwards, a new Board made of the copy of _data
\* taken at the start becomes self.board, and the strategies keep the old one
turnListIntoBoard(strategies, b, held, rows) ==
    Only({ IF ~checkConformanceOfBoard(after.board)
           THEN [board |-> b,
                 held |-> IF after.held = <<>> THEN <<after.board>> ELSE after.held]
           ELSE after :
           after \in { turnListIntoBoardFrom(strategies, [board |-> b, held |-> held],
                                             rows, 0) } })

\* the driver calls solver.reinitialize(): self.board is a new Board of vacant
\* cells; "registered strategies are left untouched"
Reinitialize ==
    /\ pc = "idle"
    /\ fresh = <<>>
    /\ board' = EmptyBoard
    /\ strategyBoard' = IF strategyBoard = <<>> THEN <<board>> ELSE strategyBoard
    /\ call' = [op |-> "reinitialize"]
    /\ calls' = calls + 1
    /\ viaOccupy' = TRUE
    /\ UNCHANGED <<withCheating, occupationStrategies, influenceStrategies,
                   solveVars, fresh, generatorVars>>

\* the driver calls solver.occupy(number, i, j), whatever Board the strategies hold
OccupyHeld(number, i, j) ==
    /\ pc = "idle"
    /\ fresh = <<>>
    /\ \E after \in { occupyHeld(influenceStrategies, board, strategyBoard, number, i, j) } :
          board' = after.board /\ strategyBoard' = after.held
    /\ call' = [op |-> "occupy", number |-> number, i |-> i, j |-> j,
                outcome |-> occupyOutcome(board, number, i, j)]
    /\ calls' = calls + 1
    /\ UNCHANGED <<withCheating, occupationStrategies, influenceStrategies,
                   solveVars, fresh, viaOccupy, generatorVars>>

\* the driver calls solver.turnListIntoBoard(rows)
TurnListIntoBoard(rows) ==
    /\ pc = "idle"
    /\ fresh = <<>>
    /\ \E after \in { turnListIntoBoard(influenceStrategies, board, strategyBoard, rows) } :
          board' = after.board /\ strategyBoard' = after.held
    /\ call' = [op |-> "turnListIntoBoard", rows |-> rows]
    /\ calls' = calls + 1
    /\ viaOccupy' = FALSE
    /\ UNCHANGED <<withCheating, occupationStrategies, influenceStrategies,
                   solveVars, fresh, generatorVars>>

\* the driver calls solver.canBeOccupied(i, j)
CanBeOccupied(i, j) ==
    /\ pc = "idle"
    /\ fresh = <<>>
    /\ call' = [op |-> "canBeOccupied", i |-> i, j |-> j,
                result |-> canBeOccupiedHeld(occupationStrategies, board, strategyBoard,
                                             solution, i, j)]
    /\ calls' = calls + 1
    /\ UNCHANGED <<board, withCheating, occupationStrategies, influenceStrategies,
                   solveVars, fresh, viaOccupy, strategyBoard, generatorVars>>

\* ------------------------------------------------------- specifications

\* the number of calls of one session of the driver
MaxCalls == 2

\* the number of calls of a session that loads a puzzle and solves it
MaxSession == 3

Init == Constructed(FALSE)

\* a session of calls on the board: loads, commits, strategy runs, and a
\* second solver loaded from the encoded board
Next ==
    \/ \E sl \in BoardInputs : calls < MaxCalls /\ Load(sl)
    \/ \E m \in BoardMoves : calls < MaxCalls /\ Occupy(m[1], m[2], m[3])
    \/ \E k \in 1..Len(influenceStrategies) :
          calls < MaxCalls /\ ApplyStrategy(influenceStrategies[k])
    \/ EncodeAndReload

Spec == Init /\ [][Next]_vars

\* a solver with or without the Cheating strategy
InitSolve == \E cheating \in BOOLEAN : Constructed(cheating)

\* a session that loads a puzzle, then commits numbers and calls solve
NextSolve ==
    \/ \E sl \in Puzzles : calls = 0 /\ Load(sl)
    \/ \E m \in PuzzleMoves :
          calls > 0 /\ calls < MaxSession /\ Occupy(m[1], m[2], m[3])
    \/ \E i \in {"NONE", "PRETTY"} : calls > 0 /\ calls < MaxSession /\ Solve(i)
    \/ SolvePass
    \/ \E value \in {"q", "s", "n", "a"} : SolvePrompt(value)
    \/ SolveCommit
    \/ \E value \in {"q", "w", "x"} : SolveStuck(value)

SpecSolve == InitSolve /\ [][NextSolve]_vars

\* the number of solve calls of a session that counts completions
MaxCounts == 2

\* the boards the driver passes to solve: the two completed boards and the
\* first one with a second 5 in row 1, each with any of six cells cleared
CountedBoards ==
    { [k \in 1..(DIM * DIM) |-> IF k \in holes THEN 0 ELSE g[k]] :
        g \in { Completed, Renumbered, [Completed EXCEPT ![2] = 5, ![29] = 0] },
        holes \in SUBSET {1, 4, 5, 31, 32, DIM * DIM} }

\* a session of solve calls of the generator
NextCount ==
    \/ \E g \in CountedBoards : calls < MaxCounts /\ CountSolutions(g)
    \/ ResetNoOfSolutions

SpecCount == Init /\ [][NextCount]_vars

\* the number of calls of a session that searches one board and solves
\* another on the same solver
MaxReuse == 3

\* a session that may call solveBF on the string of a board, then loads a
\* board (one with a single completion, one with two, one without any) and
\* calls solve without prompts
NextReuse ==
    \/ \E string \in Puzzles : calls = 0 /\ SolveBF(string)
    \/ \E sl \in Puzzles : calls < MaxReuse - 1 /\ board = EmptyBoard /\ Load(sl)
    \/ calls > 0 /\ calls < MaxReuse /\ board # EmptyBoard /\ Solve("NONE")
    \/ SolvePass
    \/ SolveCommit
    \/ \E value \in {"q", "x"} : SolveStuck(value)

SpecReuse == InitSolve /\ [][NextReuse]_vars

\* the number of calls of a session with reinitialize and turnListIntoBoard
MaxRebind == 3

\* the lists the driver passes to turnListIntoBoard: the first rows of the
\* sparse board, and a list with the 7 twice in row 1
ListInputs ==
    { SparseClues \o [k \in 1..(DIM * DIM - Len(SparseClues)) |-> 0],
      <<7, 7>> \o [k \in 1..(DIM * DIM - 2) |-> 0] }

\* a session of calls that commit numbers, load lists, start the board anew
\* and ask for the number of a cell
NextRebind ==
    \/ calls < MaxRebind /\ Reinitialize
    \/ \E m \in BoardMoves \cup { <<8, 2, 1>> } :
          calls < MaxRebind /\ OccupyHeld(m[1], m[2], m[3])
    \/ \E rows \in ListInputs : calls < MaxRebind /\ TurnListIntoBoard(rows)
    \/ \E c \in { <<1, 1>>, <<2, 1>>, <<1, 2>> } :
          calls < MaxRebind /\ CanBeOccupied(c[1], c[2])

SpecRebind == Init /\ [][NextRebind]_vars

\* one run of createSolution on the board of zeros
NextCreate ==
    \/ CreateSolutionCall
    \/ CreateSolutionTry
    \/ CreateSolutionBack

SpecCreate == Init /\ [][NextCreate]_vars

\* one run of createSudoku
NextGenerator ==
    \/ \E m \in Requests : CreateSudoku(m)
    \/ EliminateNumbers
    \/ ReturnSudoku

SpecGenerator == Init /\ [][NextGenerator]_vars

\* -------------------------------------------------- a session on strategies

\* a board that conforms to the rules and has no completion: rows 1, 2 and 4
\* are filled from column 3 to column 7, and the last number loaded, the 9
\* of (9,9), leaves the 1 as the only candidate of (7,8) and of (7,9)
ThreeRows ==
    <<0, 0, 2, 3, 4, 5, 6, 0, 0,
      0, 0, 5, 6, 7, 8, 2, 0, 0,
      0, 0, 0, 0, 0, 0, 0, 0, 0,
      0, 0, 3, 4, 5, 6, 7, 0, 0,
      0, 0, 0, 0, 0, 0, 0, 0, 0,
      0, 0, 0, 0, 0, 0, 0, 0, 0,
      8, 0, 0, 0, 0, 0, 3, 0, 0,
      0, 0, 0, 0, 0, 0, 4, 2, 7,
      0, 0, 0, 0, 0, 0, 5, 6, 9>>

\* boards that conform to the rules, with the patterns the strategies look
\* for. On the first one, once loaded, the 5 is a candidate of two or three
\* cells of each of the columns 1, 4 and 6, all in the rows 2, 4 and 6, and
\* of the cell (6,2).
PatternBoards ==
    { <<4, 3, 5, 0, 6, 0, 7, 2, 0,
         0, 0, 1, 0, 0, 0, 0, 0, 0,
         0, 6, 0, 0, 0, 0, 1, 8, 5,
         0, 4, 3, 0, 0, 0, 0, 0, 0,
         0, 1, 0, 4, 0, 0, 5, 0, 0,
         0, 0, 0, 0, 0, 0, 0, 0, 8,
         1, 2, 7, 0, 0, 3, 0, 0, 0,
         0, 9, 4, 0, 5, 0, 6, 1, 3,
         3, 0, 0, 0, 0, 0, 0, 7, 0>> }

\* the driver calls applyStrategy(i, j) of one installed occupation strategy
ApplyOccupationStrategy(name, i, j) ==
    /\ pc = "idle"
    /\ fresh = <<>>
    /\ call' = [op |-> "applyStrategy(i, j)", name |-> name, i |-> i, j |-> j,
                result |-> applyOccupationStrategy(name, board, solution, i, j)]
    /\ calls' = calls + 1
    /\ UNCHANGED <<board, withCheating, occupationStrategies, influenceStrategies,
                   solveVars, fresh, viaOccupy, generatorVars, strategyBoard>>

\* the number of calls of a session on the strategies
MaxRuns == 2

\* a session that loads a board (one of the puzzles, the board above, or the
\* sparse one) or starts from the empty one, commits numbers in the quadrants
\* (2,2), (1,3), (3,1) and (1,1), and calls the strategies one by one
NextStrategies ==
    \/ \E sl \in Puzzles \cup { StringOf(ThreeRows), Sparse }
                       \cup { StringOf(numbers) : numbers \in PatternBoards } :
          calls = 0 /\ Load(sl)
    \/ \E m \in { <<9, 5, 5>>, <<8, 3, 9>>, <<1, 9, 2>>, <<6, 1, 1>> } :
          calls < MaxRuns /\ Occupy(m[1], m[2], m[3])
    \/ \E k \in 1..Len(influenceStrategies) :
          calls < MaxRuns /\ ApplyStrategy(influenceStrategies[k])
    \/ \E k \in 1..Len(occupationStrategies) :
          \E c \in { <<1, 1>>, <<3, 7>>, <<5, 5>>, <<7, 9>>, <<9, 9>> } :
             calls < MaxRuns
             /\ ApplyOccupationStrategy(occupationStrategies[k], c[1], c[2])

SpecStrategies == Init /\ [][NextStrategies]_vars

\* the number of occupy calls of a session that follows them step by step
MaxCommits == 2

\* the arguments (number, i, j) of these calls: numbers that fit, the 2 a
\* second time in row 1, and a cell that is occupied by then
CommitMoves == { <<2, 1, 1>>, <<2, 1, 9>>, <<9, 5, 5>>, <<4, 1, 1>>, <<1, 9, 2>> }

\* a session of occupy calls on the empty board or on a loaded one, each
\* followed through its steps
NextCommit ==
    \/ \E sl \in { Sparse, StringOf(ThreeRows) } : calls = 0 /\ Load(sl)
    \/ \E m \in CommitMoves : calls < MaxCommits /\ OccupyWrite(m[1], m[2], m[3])
    \/ OccupyCheck
    \/ OccupyPropagate
    \/ OccupyStrategy

SpecCommit == Init /\ [][NextCommit]_vars

\* ------------------------------------------------ a session that runs on

\* a session that loads a puzzle (one of the three above, or the completed
\* board without the cells (1,1), (1,2), (4,1), (4,2), which has a single
\* completion) and calls solve
NextProgress ==
    \/ \E sl \in Puzzles \cup { StringOf([Completed EXCEPT ![1] = 0, ![2] = 0,
                                                           ![28] = 0, ![29] = 0]) } :
          calls = 0 /\ Load(sl)
    \/ \E i \in {"NONE", "PRETTY"} : calls > 0 /\ calls < MaxSession /\ Solve(i)
    \/ SolvePass
    \/ \E value \in {"q", "s", "n", "a"} : SolvePrompt(value)
    \/ SolveCommit
    \/ \E value \in {"q", "w", "x"} : SolveStuck(value)

\* a call of solve that is not waiting for the console goes on: the pass
\* over the cells and the commit are taken when they can be. The commit is
\* named by what it does to pc: from "commit" the only step of the session
\* is SolveCommit, which writes a vacant cell and moves pc to "pass", so the
\* condition on pc is weak fairness of SolveCommit
SpecProgress ==
    /\ InitSolve /\ [][NextProgress]_vars
    /\ WF_vars(SolvePass)
    /\ WF_pc(pc = "commit" /\ steps < MaxSteps /\ pc' = "pass")

\* ------------------------------------------------- a session of searches
\* The driver calls solveBF on one solver, several times.

\* the calls of solveBF of one session
MaxSearches == 4

\* the strings passed: the puzzles, two completed boards, a puzzle that
\* completes to the second of them, a string of 80 characters and a string
\* with a letter
NextSearch ==
    \E string \in Puzzles \cup
                  { StringOf(Completed), StringOf(Renumbered),
                    StringOf([Renumbered EXCEPT ![1] = 0, ![81] = 0]),
                    SubSeq(StringOf(Completed), 1, DIM * DIM - 1),
                    [StringOf(Completed) EXCEPT ![5] = "x"] } :
        calls < MaxSearches /\ SolveBF(string)

SpecSearch == InitSolve /\ [][NextSearch]_vars

\* ================================================================== claims

\* the cells at indices c1 and c2 are occupied by the same number
SameNumber(b, c1, c2) == b[c1].x /\ b[c2].x /\ b[c1].y = b[c2].y

\* C1: between the calls of a session of turnStringIntoBoard, occupy and
\* solve on a board that started empty, no two occupied cells of a row, of a
\* column or of a quadrant hold the same number.
C1_Conformance ==
    pc = "idle" =>
        \A c1 \in Cells : \A c2 \in Cells :
            (c1 < c2 /\ influencer(c1, c2)) => ~SameNumber(board, c1, c2)

\* C1, its case: a solve that committed numbers has returned, after a load
\* and an occupy.
C1_Witness == pc = "idle" /\ call.op = "solve" /\ calls = MaxSession /\ steps > 0

C3_Original ==
    (pc = "idle" /\ call.op = "solve" /\ call.info = "NONE" /\ result # "None") =>
        \/ result = "True" /\ \A c \in Cells : board[c].x
        \/ result = "False" /\ call.stuck

\* C4: once eliminateNumbers has cleared a cell, and when createSudoku
\* returns, solve counts exactly one completion of the generator's board.
C4_UniqueCompletion ==
    (gpc = "returned" \/ (gpc = "eliminateNumbers" /\ noOfOccupiedCells < DIM * DIM)) =>
        solve(gboard) = 1

\* C4, its case: createSudoku has returned after four cells were restored.
C4_Witness == gpc = "returned" /\ iters = 0 /\ noOfOccupiedCells < DIM * DIM

\* C5 as stated: the board createSudoku(minimumOccupancy = m) returns has at
\* least m occupied cells.
C5_Original ==
    gpc = "returned" =>
        Cardinality({ k \in 1..(DIM * DIM) : gboard[k] # 0 }) >= requested

\* C6: a step of the session never takes a number out of the excluded set
\* of a cell that is vacant before and after the step.
C6_Monotone ==
    [][\A c \in Cells :
          (~board[c].x /\ ~board'[c].x) => board[c].z \subseteq board'[c].z]_vars

\* C6, its case: a commit after a load has put its number into the excluded
\* set of a cell that is still vacant.
C6_Witness ==
    /\ calls = MaxCalls
    /\ call.op = "occupy"
    /\ call.outcome = "committed"
    /\ \E c \in Cells : ~board[c].x /\ call.number \in board[c].z

C8_Original == fresh # <<>> => fresh[1] = board

\* C8 amended: the board a new solver loads from turnBoardIntoString of a
\* board reached by occupy calls has the same cells occupied, by the same
\* numbers.
C8_Amended ==
    fresh # <<>> =>
        \A c \in Cells : fresh[1][c].x = board[c].x /\ fresh[1][c].y = board[c].y

\* C8, its case: a board with occupied cells was encoded and loaded, and
\* a vacant cell of the two boards differs in its excluded set.
C8_Witness ==
    /\ fresh # <<>>
    /\ \E c \in Cells : board[c].x
    /\ \E c \in Cells : ~board[c].x /\ fresh[1][c].z # board[c].z

\* C9: an occupy of a vacant cell with a number that an occupied cell of its
\* row, column or quadrant holds leaves the whole board as it was.
C9_Rollback ==
    [][(/\ calls' = calls + 1
        /\ call'.op = "occupy"
        /\ ~getElement(board, call'.i, call'.j).x
        /\ \E c \in Cells :
              /\ c # map(call'.i, call'.j)
              /\ influencer(c, map(call'.i, call'.j))
              /\ board[c].x
              /\ board[c].y = call'.number)
       => board' = board]_vars

\* C9, its case: an occupy on a loaded board was taken back.
C9_Witness ==
    /\ call.op = "occupy"
    /\ call.outcome = "restored"
    /\ \E c \in Cells : board[c].x

\* C10 as stated: turnStringIntoBoard accepts exactly the strings of 81
\* characters that are all digits, and a rejected string changes no cell.
C10_Original ==
    [][(calls' = calls + 1 /\ call'.op = "turnStringIntoBoard") =>
          /\ call'.accepted <=>
                /\ Len(call'.sl) = DIM * DIM
                /\ \A k \in 1..Len(call'.sl) : call'.sl[k] \in DigitChars
          /\ ~call'.accepted => board' = board]_vars

\* C10 amended: turnStringIntoBoard accepts exactly the strings that, with
\* their blanks left out, have 81 characters that are all digits, and a
\* rejected string changes no cell.
C10_Amended ==
    [][(calls' = calls + 1 /\ call'.op = "turnStringIntoBoard") =>
          /\ call'.accepted <=>
                /\ Len(SelectSeq(call'.sl, LAMBDA ch : ch # " ")) = DIM * DIM
                /\ \A k \in 1..Len(call'.sl) : call'.sl[k] \in DigitChars \cup {" "}
          /\ ~call'.accepted => board' = board]_vars

\* C10, its case: a string was rejected by a solver whose board has
\* occupied cells.
C10_Witness ==
    /\ call.op = "turnStringIntoBoard"
    /\ ~call.accepted
    /\ \E c \in Cells : board[c].x

\* the cells at indices c1 and c2 are different cells of one row, column or
\* quadrant
SameRegion(c1, c2) == c1 # c2 /\ influencer(c1, c2)

\* C11: after an occupy(v, i, j) that went through, whatever the quadrant of
\* (i,j), every vacant cell of the row, the column and the quadrant of (i,j)
\* has v in its excluded set.
C11_Propagated ==
    [][(/\ calls' = calls + 1
        /\ call'.op = "occupy"
        /\ call'.outcome = "committed")
       => \A c \in Cells :
             (SameRegion(c, map(call'.i, call'.j)) /\ ~board'[c].x)
                => call'.number \in board'[c].z]_vars

\* C11, its case: a number was committed outside quadrant (1,1) on a loaded
\* board, and a vacant cell of its quadrant that is neither in its row nor in
\* its column excludes it.
C11_Witness ==
    /\ calls = MaxRuns
    /\ call.op = "occupy"
    /\ call.outcome = "committed"
    /\ inverseMapQuadrant(call.i, call.j)[1] # 1
    /\ \E c \in Cells :
          /\ SameRegion(c, map(call.i, call.j))
          /\ c \div DIM # call.i - 1
          /\ c % DIM # call.j - 1
          /\ ~board[c].x
          /\ call.number \in board[c].z

\* number s has an X-Wing in the rows r1 < r2 of board b: it is a candidate of
\* exactly two cells of each row, in the same two columns
XWingInRows(b, s, r1, r2) ==
    /\ r1 < r2
    /\ Cardinality(findCandidatesInRow(b, s, r1)) = 2
    /\ findCandidatesInRow(b, s, r1) = findCandidatesInRow(b, s, r2)

\* the same with rows and columns exchanged
XWingInColumns(b, s, c1, c2) ==
    /\ c1 < c2
    /\ Cardinality(findCandidatesInColumn(b, s, c1)) = 2
    /\ findCandidatesInColumn(b, s, c1) = findCandidatesInColumn(b, s, c2)

\* on board b, s is a candidate of no cell of the columns cols outside the
\* rows rows (of the rows cols outside the columns rows when byRows is FALSE)
XWingCleared(b, s, byRows, rows, cols) ==
    \A r \in Numbers \ rows : \A c \in cols :
        IF byRows THEN ~isCandidate(b, s, r, c) ELSE ~isCandidate(b, s, c, r)

\* on board b, s is a candidate of the corner cells
XWingCorners(b, s, byRows, rows, cols) ==
    \A r \in rows : \A c \in cols :
        IF byRows THEN isCandidate(b, s, r, c) ELSE isCandidate(b, s, c, r)

\* C12 as stated: when s has an X-Wing in two rows (two columns) before
\* XWingStrategy.applyStrategy(), then after it s is excluded from every
\* other cell of the two columns (rows) and is still a candidate of the four
\* corner cells.
C12_Original ==
    [][(calls' = calls + 1 /\ call'.op = "applyStrategy" /\ call'.name = "XWingStrategy")
       => \A s \in Numbers : \A l1 \in Numbers : \A l2 \in Numbers :
            /\ XWingInRows(board, s, l1, l2) =>
                  /\ XWingCleared(board', s, TRUE, {l1, l2}, findCandidatesInRow(board, s, l1))
                  /\ XWingCorners(board', s, TRUE, {l1, l2}, findCandidatesInRow(board, s, l1))
            /\ XWingInColumns(board, s, l1, l2) =>
                  /\ XWingCleared(board', s, FALSE, {l1, l2}, findCandidatesInColumn(board, s, l1))
                  /\ XWingCorners(board', s, FALSE, {l1, l2}, findCandidatesInColumn(board, s, l1))]_vars

\* C12 amended: when s has an X-Wing in two rows (two columns) before the
\* call, then after it s is excluded from every other cell of the two columns
\* (rows); it is still a candidate of the four corner cells if no other pair
\* of rows (columns) has an X-Wing of s in one of these columns (rows).
C12_Amended ==
    [][(calls' = calls + 1 /\ call'.op = "applyStrategy" /\ call'.name = "XWingStrategy")
       => \A s \in Numbers : \A l1 \in Numbers : \A l2 \in Numbers :
            /\ XWingInRows(board, s, l1, l2) =>
                  /\ XWingCleared(board', s, TRUE, {l1, l2}, findCandidatesInRow(board, s, l1))
                  /\ (\A m1 \in Numbers : \A m2 \in Numbers :
                         (XWingInRows(board, s, m1, m2) /\ <<m1, m2>> # <<l1, l2>>)
                            => findCandidatesInRow(board, s, m1)
                                  \cap findCandidatesInRow(board, s, l1) = {})
                     => XWingCorners(board', s, TRUE, {l1, l2},
                                     findCandidatesInRow(board, s, l1))
            /\ XWingInColumns(board, s, l1, l2) =>
                  /\ XWingCleared(board', s, FALSE, {l1, l2}, findCandidatesInColumn(board, s, l1))
                  /\ (\A m1 \in Numbers : \A m2 \in Numbers :
                         (XWingInColumns(board, s, m1, m2) /\ <<m1, m2>> # <<l1, l2>>)
                            => findCandidatesInColumn(board, s, m1)
                                  \cap findCandidatesInColumn(board, s, l1) = {})
                     => XWingCorners(board', s, FALSE, {l1, l2},
                                     findCandidatesInColumn(board, s, l1))]_vars

\* C12, its case: XWingStrategy has run on the loaded board in which 1 has
\* an X-Wing in the rows 1 and 2, columns 1 and 2, and has excluded the 1
\* from a cell of column 1 in another row.
C12_Witness ==
    /\ calls = MaxRuns
    /\ call.op = "applyStrategy"
    /\ call.name = "XWingStrategy"
    /\ \E before \in { turnStringIntoBoard(InstalledInfluenceStrategies, EmptyBoard,
                                           StringOf(ThreeRows)) } :
          /\ XWingInRows(before, 1, 1, 2)
          /\ findCandidatesInRow(before, 1, 1) = {1, 2}
          /\ board = XWingStrategy(before)
          /\ \E r \in Numbers \ {1, 2} :
                isCandidate(before, 1, r, 1) /\ ~isCandidate(board, 1, r, 1)

\* C13: for a vacant cell (i,j), OneCandidateLeftStrategy.applyStrategy(i,j)
\* returns the one number of 1..9 that is not in the excluded set of the cell
\* when that set has 8 members, and 0 in every other case.
C13_OneLeft ==
    (/\ call.op = "applyStrategy(i, j)"
     /\ call.name = "OneCandidateLeftStrategy"
     /\ ~getElement(board, call.i, call.j).x)
    => \A z \in { getElement(board, call.i, call.j).z } :
          IF Cardinality(z) = 8
          THEN call.result \in Numbers /\ Numbers \ z = {call.result}
          ELSE call.result = 0

\* C13, its case: the strategy has named the number of the one vacant cell
\* of a row with 8 occupied cells, whose excluded set has 8 members.
C13_Witness ==
    /\ call.op = "applyStrategy(i, j)"
    /\ call.name = "OneCandidateLeftStrategy"
    /\ ~getElement(board, call.i, call.j).x
    /\ Cardinality(getElement(board, call.i, call.j).z) = 8
    /\ Cardinality({ c \in Numbers : getElement(board, call.i, c).x }) = 8
    /\ call.result \in Numbers

\* the numbers of board b in row-major order, 0 for a vacant cell
NumbersOf(b) == [k \in 1..(DIM * DIM) |-> IF b[k - 1].x THEN b[k - 1].y ELSE 0]

\* board b conforms to the rules and has at least one completion
HasCompletion(b) ==
    /\ checkConformanceOfBoard(b)
    /\ isCompleted(b) \/ solve(NumbersOf(b)) >= 1

\* solve(Info.NONE) of a solver with Cheating is running or has run on a
\* board with a completion
CheatedSolve ==
    /\ withCheating
    /\ call.op = "solve"
    /\ call.info = "NONE"
    /\ result # "None"
    /\ HasCompletion(board)

\* C14: with Cheating, a solve called with Info.NONE on a conformant board
\* that has a completion never gets to the branch of a pass without a commit,
\* and it eventually returns True with every cell occupied.
C14_Progress ==
    /\ [](CheatedSolve => pc # "stuck")
    /\ CheatedSolve ~> (pc = "idle" /\ result = "True" /\ isCompleted(board))

\* C14, its case: such a solve has returned True on the board with two
\* completions, with the 7 in (1,4) that no other strategy can decide on.
C14_Witness ==
    /\ CheatedSolve
    /\ pc = "idle"
    /\ result = "True"
    /\ isCompleted(board)
    /\ steps > 0
    /\ getElement(board, 1, 4).y = 7

\* the digits of string break no rule: no digit other than "0" stands twice
\* in a row, a column or a box
ConformantString(string) ==
    \A k1 \in 1..Len(string) :
        string[k1] # "0" =>
            \A k2 \in (k1 + 1)..Len(string) :
                influencer(k1 - 1, k2 - 1) => string[k1] # string[k2]

\* filled is a completion of string: 81 digits, none "0", the digits of
\* string where string has one, and no rule broken
IsCompletionOf(filled, string) ==
    /\ Len(filled) = DIM * DIM
    /\ \A k \in 1..Len(filled) : filled[k] \in DigitChars \ {"0"}
    /\ \A k \in 1..Len(filled) : string[k] # "0" => filled[k] = string[k]
    /\ ConformantString(filled)

\* the completions of a conformant string of 81 digits, vacancy by vacancy:
\* the first vacancy takes every digit that no cell of its row, column or box
\* holds
RECURSIVE Fillings(_)
Fillings(string) ==
    IF \A k \in 1..Len(string) : string[k] # "0" THEN {string}
    ELSE UNION { Fillings([string EXCEPT ![p[1]] = p[2]]) :
                 p \in { q \in { Min({k \in 1..Len(string) : string[k] = "0"}) }
                                \X (DigitChars \ {"0"}) :
                            \A k \in 1..Len(string) :
                                (k # q[1] /\ influencer(k - 1, q[1] - 1))
                                    => string[k] # q[2] } }

\* the completions of a string of 81 digits
Completions(string) == IF ConformantString(string) THEN Fillings(string) ELSE {}

\* the last call was solveBF on a string of 81 digits
Searched ==
    /\ call.op = "solveBF"
    /\ Len(call.string) = DIM * DIM
    /\ wellFormed(call.string)

\* C15: a non-empty string that solveBF returns for a well-formed, conformant
\* string of 81 characters is a completion of that string: 81 digits, none of
\* them "0", the digits of the input where the input has one, no digit twice
\* in a row, column or box; for an input without "0" it is the input itself.
C15_Original ==
    (Searched /\ ConformantString(call.string) /\ call.returned # <<>>)
        => IsCompletionOf(call.returned, call.string)

\* C16: solveBF called with a well-formed string that has no completion
\* returns the empty string, whatever earlier calls on the solver returned.
C16_Original ==
    (Searched /\ Completions(call.string) = {}) => call.returned = <<>>

\* C17: on every board reached from the empty board by occupy calls and
\* strategy runs, a vacant cell excludes the number of every occupied cell of
\* its row, column and quadrant, and each of its candidates can be committed:
\* occupy would not take it back.
C17_Complete ==
    \A c \in Cells :
        ~board[c].x =>
            /\ \A p \in Cells :
                  (board[p].x /\ SameRegion(c, p)) => board[p].y \in board[c].z
            /\ \A n \in Numbers \ board[c].z :
                  occupyOutcome(board, n, (c \div DIM) + 1, (c % DIM) + 1) = "committed"

\* C17, its case: after a load and a strategy run, or two commits, a vacant
\* cell with a candidate left has occupied cells in its row, in its column
\* and, off both, in its quadrant.
C17_Witness ==
    /\ calls = MaxRuns
    /\ call.op \in {"applyStrategy", "occupy"}
    /\ \E c \in Cells :
          /\ ~board[c].x
          /\ board[c].z # Numbers
          /\ \E p \in Cells : board[p].x /\ p # c /\ p \div DIM = c \div DIM
          /\ \E p \in Cells : board[p].x /\ p # c /\ p % DIM = c % DIM
          /\ \E p \in Cells :
                /\ board[p].x /\ SameRegion(c, p)
                /\ p \div DIM # c \div DIM
                /\ p % DIM # c % DIM

\* board b agrees with the completed string S: an occupied cell holds the
\* digit of S, a vacant cell does not exclude it
Sound(b, S) ==
    \A c \in Cells :
        IF b[c].x THEN b[c].y = int(S[c + 1]) ELSE int(S[c + 1]) \notin b[c].z

Regions ==
    { RowCells(r) : r \in Numbers } \cup { ColumnCells(c) : c \in Numbers }
        \cup { QuadrantCells(d1, d2) : d1 \in 1..dim, d2 \in 1..dim }

\* the cells of a region of board b that have number n as a candidate
PlacesOf(b, region, n) == { c \in region : ~b[c].x /\ n \notin b[c].z }

\* the numbers nums are hidden in the cells hidden of a region of board b:
\* as many cells as numbers, every number a candidate of cells of hidden
\* and of no other cell of the region, and every cell of hidden with a
\* candidate that is none of the numbers
HiddenIn(b, region, nums, hidden, together) ==
    /\ Cardinality(hidden) = Cardinality(nums)
    /\ \A n \in nums :
          /\ PlacesOf(b, region, n) # {}
          /\ PlacesOf(b, region, n) \subseteq hidden
          /\ together => PlacesOf(b, region, n) = hidden
    /\ \A c \in hidden : ~b[c].x /\ ~((Numbers \ b[c].z) \subseteq nums)

\* C19: when two numbers are candidates of the same two cells of a row, column
\* or quadrant and of no other cell of it, and those cells have further
\* candidates, a run of HiddenPairsStrategy leaves every other number
\* excluded from the two cells; a run of HiddenTriplesStrategy does the same
\* for three numbers confined to three cells.
C19_Original ==
    [][ /\ (call'.op = "applyStrategy" /\ call'.name = "HiddenPairsStrategy") =>
              \A region \in Regions : \A n1, n2 \in Numbers :
                  \A hidden \in { PlacesOf(board, region, n1) } :
                      (n1 < n2 /\ HiddenIn(board, region, {n1, n2}, hidden, TRUE)) =>
                          \A c \in hidden : Numbers \ {n1, n2} \subseteq board'[c].z
        /\ (call'.op = "applyStrategy" /\ call'.name = "HiddenTriplesStrategy") =>
              \A region \in Regions : \A n1, n2, n3 \in Numbers :
                  \A hidden \in { PlacesOf(board, region, n1) \cup PlacesOf(board, region, n2)
                                      \cup PlacesOf(board, region, n3) } :
                      (n1 < n2 /\ n2 < n3
                          /\ HiddenIn(board, region, {n1, n2, n3}, hidden, FALSE)) =>
                          \A c \in hidden : Numbers \ {n1, n2, n3} \subseteq board'[c].z
      ]_vars

\* C20: when a number is a candidate of exactly two or three cells of a
\* quadrant and these lie in one row (one column), a run of
\* PointingPairsAndTriplesStrategy leaves the number excluded from every
\* vacant cell of that row (column) outside the quadrant, and leaves the
\* excluded sets of the cells of the quadrant as they were.
C20_Original ==
    [][ (call'.op = "applyStrategy" /\ call'.name = "PointingPairsAndTriplesStrategy") =>
          \A d1, d2 \in 1..dim : \A s \in Numbers :
              \A places \in { PlacesOf(board, QuadrantCells(d1, d2), s) } :
                  Cardinality(places) \in {2, 3} =>
                      /\ \A r \in Numbers :
                            places \subseteq RowCells(r) =>
                                \A c \in RowCells(r) \ QuadrantCells(d1, d2) :
                                    ~board'[c].x => s \in board'[c].z
                      /\ \A col \in Numbers :
                            places \subseteq ColumnCells(col) =>
                                \A c \in ColumnCells(col) \ QuadrantCells(d1, d2) :
                                    ~board'[c].x => s \in board'[c].z
                      /\ (\E line \in Numbers : places \subseteq RowCells(line)
                                                 \/ places \subseteq ColumnCells(line)) =>
                            \A c \in QuadrantCells(d1, d2) : board'[c].z = board[c].z
      ]_vars

\* the sets of three rows, or of three columns
Triples == { T \in SUBSET Numbers : Cardinality(T) = dim }

\* C21: when number s is a candidate of two or three cells of each of three
\* columns and these cells lie in exactly three rows, a run of
\* SwordFishStrategy leaves s excluded from every vacant cell of the three rows
\* outside the three columns; the same with rows and columns exchanged.
C21_Original ==
    [][ (call'.op = "applyStrategy" /\ call'.name = "SwordFishStrategy") =>
          \A s \in Numbers : \A T \in Triples :
              /\ \A rows \in { UNION { findCandidatesInColumn(board, s, c) : c \in T } } :
                    (/\ Cardinality(rows) = dim
                     /\ \A c \in T :
                           Cardinality(findCandidatesInColumn(board, s, c)) \in 2..dim) =>
                        \A r \in rows : \A c \in Numbers \ T :
                            ~board'[map(r, c)].x => s \in board'[map(r, c)].z
              /\ \A columns \in { UNION { findCandidatesInRow(board, s, r) : r \in T } } :
                    (/\ Cardinality(columns) = dim
                     /\ \A r \in T :
                           Cardinality(findCandidatesInRow(board, s, r)) \in 2..dim) =>
                        \A c \in columns : \A r \in Numbers \ T :
                            ~board'[map(r, c)].x => s \in board'[map(r, c)].z
      ]_vars

\* the numbers that are influencers of every one of the given cells
CommonInfluencers(b, cells) == { n \in Numbers : \A c \in cells : n \in b[c].z }

\* the vacant cells of a region other than the cell (i,j)
OtherVacant(b, region, i, j) == { c \in region \ {map(i, j)} : ~b[c].x }

\* the number a region forces on (i,j): the only common influencer of the
\* other vacant cells of the region, 0 when there is none or more than one
Forced(b, region, i, j) ==
    LET common == CommonInfluencers(b, OtherVacant(b, region, i, j))
    IN  IF Cardinality(common) = 1 THEN Min(common) ELSE 0

\* C22: for a vacant cell, RemainingInfluencerStrategy intersects the
\* influencers of the other vacant cells of the quadrant, then of the row,
\* then of the column; when exactly one number is left, applyStrategy returns
\* it, otherwise 0.
C22_Original ==
    (/\ call.op = "applyStrategy(i, j)"
     /\ call.name = "RemainingInfluencerStrategy"
     /\ ~getElement(board, call.i, call.j).x) =>
        LET q == inverseMapQuadrant(call.i, call.j)
            inQuadrant == Forced(board, QuadrantCells(q[1], q[2]), call.i, call.j)
            inRow == Forced(board, RowCells(call.i), call.i, call.j)
            inColumn == Forced(board, ColumnCells(call.j), call.i, call.j)
        IN  call.result = IF inQuadrant # 0 THEN inQuadrant
                          ELSE IF inRow # 0 THEN inRow
                          ELSE inColumn

\* the candidates of (i,j) that are influencers of every other vacant cell of
\* the region
DeepHits(b, region, i, j) ==
    getCandidates(b, i, j) \cap CommonInfluencers(b, OtherVacant(b, region, i, j))

\* the regions of (i,j) in the order quadrant, row, column
RegionsOf(i, j) ==
    <<QuadrantCells(inverseMapQuadrant(i, j)[1], inverseMapQuadrant(i, j)[2]),
      RowCells(i), ColumnCells(j)>>

\* C23: for a vacant cell (i,j), DeepCheckStrategy.applyStrategy returns a
\* number other than 0 exactly when some candidate of (i,j) is an influencer
\* of every other vacant cell of the quadrant, or else of the row, or else of
\* the column; the first of these regions with such a candidate gives the
\* number, which is always a candidate of (i,j).
C23_DeepCheck ==
    (/\ call.op = "applyStrategy(i, j)"
     /\ call.name = "DeepCheckStrategy"
     /\ ~getElement(board, call.i, call.j).x) =>
        LET hits == [k \in 1..3 |-> DeepHits(board, RegionsOf(call.i, call.j)[k],
                                             call.i, call.j)]
        IN  /\ call.result # 0 <=> \E k \in 1..3 : hits[k] # {}
            /\ \A k \in 1..3 :
                  (hits[k] # {} /\ \A before \in 1..(k - 1) : hits[before] = {}) =>
                      call.result \in hits[k]
            /\ call.result # 0 => call.result \in getCandidates(board, call.i, call.j)

\* a call on a vacant cell whose quadrant gives no number and whose row or
\* column does
C23_Witness ==
    /\ call.op = "applyStrategy(i, j)"
    /\ call.name = "DeepCheckStrategy"
    /\ ~getElement(board, call.i, call.j).x
    /\ call.result # 0
    /\ DeepHits(board, RegionsOf(call.i, call.j)[1], call.i, call.j) = {}

\* the segments in the order IndirectInfluencersStrategy.applyStrategy takes
\* them: the quadrants d1 then d2, in each the rows 1..dim, then the columns;
\* step k in 1..(2 * dim * DIM) is <<d1, d2, TRUE for a row, r or c>>
IndirectStep(k) ==
    LET q == (k - 1) \div (2 * dim)
        m == ((k - 1) % (2 * dim)) + 1
    IN  <<(q \div dim) + 1, (q % dim) + 1, m <= dim, IF m <= dim THEN m ELSE m - dim>>

\* the cells of the segment of a step, and of the row or column it lies in
SegmentOf(st) ==
    IF st[3] THEN {mapQuadrant(st[1], st[2], st[4], c) : c \in 1..dim}
    ELSE {mapQuadrant(st[1], st[2], r, st[4]) : r \in 1..dim}
LineOf(st) ==
    IF st[3] THEN RowCells((st[1] - 1) * dim + st[4])
    ELSE ColumnCells((st[2] - 1) * dim + st[4])

\* what the analysis of one segment does to board b, leaving board next
SegmentAnalysed(b, next, st) ==
    LET totalSet == SegmentCandidates(b, SegmentOf(st))
    IN  IF Cardinality(totalSet) = SegmentVacant(b, SegmentOf(st))
        THEN /\ \A c \in LineOf(st) \ QuadrantCells(st[1], st[2]) :
                   ~b[c].x => next[c].z = b[c].z \cup totalSet
             /\ \A c \in QuadrantCells(st[1], st[2]) : next[c] = b[c]
        ELSE next = b

\* the segments from step k on are analysed as above, starting with board b
\* and ending with board last
RECURSIVE SegmentsAnalysed(_, _, _)
SegmentsAnalysed(b, k, last) ==
    IF k > 2 * dim * DIM THEN b = last
    ELSE \A st \in { IndirectStep(k) } :
            \A next \in { IF st[3] THEN analyzeRowInQuadrant(b, st[1], st[2], st[4])
                          ELSE analyzeColumnInQuadrant(b, st[1], st[2], st[4]) } :
                SegmentAnalysed(b, next, st) /\ SegmentsAnalysed(next, k + 1, last)

\* C24: IndirectInfluencersStrategy.applyStrategy() takes the row segments
\* and the column segments of each quadrant in turn; when the candidates of
\* the vacant cells of a segment are as many numbers as the segment has vacant
\* cells, it adds these numbers to the influencers of every vacant cell of
\* the row (column) outside the quadrant and changes no cell of the quadrant;
\* otherwise it changes nothing for the segment.
C24_Segments ==
    [][ (call'.op = "applyStrategy" /\ call'.name = "IndirectInfluencersStrategy") =>
          SegmentsAnalysed(board, 1, board') ]_vars

\* C24, its case: the strategy has run on the loaded sparse board, and a
\* segment with a vacant cell and as many candidates as vacant cells has had
\* them added to a vacant cell of its row or column outside the quadrant.
C24_Witness ==
    /\ calls = MaxRuns
    /\ call.op = "applyStrategy"
    /\ call.name = "IndirectInfluencersStrategy"
    /\ \E before \in { turnStringIntoBoard(InstalledInfluenceStrategies, EmptyBoard,
                                           Sparse) } :
          /\ board = IndirectInfluencersStrategy(before)
          /\ \E k \in 1..(2 * dim * DIM) :
                \E st \in { IndirectStep(k) } :
                   \E totalSet \in { SegmentCandidates(board, SegmentOf(st)) } :
                      /\ SegmentVacant(board, SegmentOf(st)) > 0
                      /\ Cardinality(totalSet) = SegmentVacant(board, SegmentOf(st))
                      /\ \E c \in LineOf(st) \ QuadrantCells(st[1], st[2]) :
                            /\ ~board[c].x
                            /\ totalSet \subseteq board[c].z
                            /\ ~(totalSet \subseteq before[c].z)

\* the steps of an occupy call that found the board conformant, and of one
\* that did not
StepsCommitted ==
    <<"setElement", "checkConformanceOfBoard", "addInfluencerToRegionExclusive">>
        \o influenceStrategies
StepsRestored == <<"setElement", "checkConformanceOfBoard", "restore">>

IsPrefix(s, t) == Len(s) <= Len(t) /\ SubSeq(t, 1, Len(s)) = s

\* the board as an occupy call on a vacant cell wrote it, before the check
Written(b) == setElement(b, call.i, call.j, [x |-> TRUE, y |-> call.number, z |-> {}])

\* C25: an occupy call on a vacant cell writes the number, then checks the
\* conformance of the board and, only if the board conforms, propagates the
\* number and then runs every installed influence strategy once, in the
\* installed order; if the board does not conform, neither the propagation
\* nor a strategy runs.
C25_Ordering ==
    (call.op = "occupy" /\ ~call.old.x) =>
        /\ IsPrefix(call.done, StepsCommitted) \/ call.done = StepsRestored
        /\ Len(call.done) > 2 =>
              (call.done[3] = "addInfluencerToRegionExclusive"
                  <=> checkConformanceOfBoard(Written(board)))
        /\ pc = "idle" => call.done \in {StepsCommitted, StepsRestored}

\* C25, its case: an occupy call on a loaded board has returned after the
\* propagation and the run of every strategy, and left the board that occupy
\* leaves
C25_Witness ==
    /\ calls = MaxCommits
    /\ call.op = "occupy"
    /\ pc = "idle"
    /\ call.done = StepsCommitted
    /\ \E sl \in { Sparse } :
          board = occupy(influenceStrategies,
                         turnStringIntoBoard(influenceStrategies, EmptyBoard, sl),
                         call.number, call.i, call.j)

\* C26: in a call of solveBF, once a string without "0" has been recorded in
\* self.bfs, the search stops: no other number is tried and no later string
\* without "0" is recorded over it, so one call records at most one string.
C26_Original ==
    Searched => Cardinality(solveBruteForce(call.string)) <= 1

\* C27: for a conformant board, solve(board) called with noOfSolutions = 0
\* leaves in noOfSolutions the number of completions of the board, and leaves
\* the board as it was.
C27_Original ==
    (/\ call.op = "solve(board)"
     /\ call.noOfSolutions = 0
     /\ ConformantString(StringOf(call.board))) =>
        /\ noOfSolutions = Cardinality(Completions(StringOf(call.board)))
        /\ gboard = call.board

\* C28: createSolution, started on the board of zeros, does not give up, and
\* when it returns every cell holds a number of 1..9 and no row, column or
\* quadrant holds a number twice, whatever orders the shuffles left.
C28_FullGrid ==
    /\ gpc # "failed"
    /\ gpc = "created" =>
          /\ \A k \in 1..(DIM * DIM) : gboard[k] \in Numbers
          /\ \A k1, k2 \in 1..(DIM * DIM) :
                (k1 # k2 /\ influencer(k1 - 1, k2 - 1)) => gboard[k1] # gboard[k2]

\* C28, its case: createSolution has returned with a board that starts with
\* the 9 and the 1, the first shuffle having left the numbers in descending
\* order and the second one in ascending order
C28_Witness ==
    /\ gpc = "created"
    /\ frames = <<>>
    /\ gboard[1] = DIM
    /\ gboard[2] = 1
    /\ \A k \in 1..(DIM * DIM) : gboard[k] # 0

\* the number of cells that are vacant before a step and occupied after it
NewlyOccupied == Cardinality({ c \in Cells : ~board[c].x /\ board'[c].x })

\* C29: in the course of a solve call, steps and changes go up only with a
\* commit that occupies a cell, so steps is the number of cells the call has
\* occupied and a pass that occupied no cell has changes = 0.
C29_Original ==
    [][ calls' = calls =>
          /\ steps' - steps = NewlyOccupied
          /\ changes' > changes => NewlyOccupied > 0 ]_vars

\* C30: whatever calls have been made, reinitialize and turnListIntoBoard
\* among them, the Board the strategies read and write is the Board the
\* solver holds in self.board.
C30_Original == strategyBoard = <<>>

====
